---- MODULE Spec2Model ----
(***************************************************************************)
(* Model of simple_sqlalchemy's many-to-many helper                        *)
(* (simple_sqlalchemy/helpers/m2m.py) over a relational store holding a    *)
(* source table, a target table and a junction table whose primary key is  *)
(* the pair (source_id, target_id).                                        *)
(*                                                                         *)
(* Storage conventions used throughout:                                    *)
(*  - a table of entities is the set of the ids of its rows;               *)
(*  - the junction is the set of its (source_id, target_id) rows (the      *)
(*    composite primary key forbids duplicates);                           *)
(*  - a SELECT without ORDER BY returns rows in ascending key order, for   *)
(*    every query alike (one storage scan order).                          *)
(***************************************************************************)
EXTENDS Integers, Sequences, FiniteSets, TLC

\* ---------------------------------------------------------------- bounds
MaxSource == 2
MaxTarget == 1
MaxSkip == 2
MaxLimit == 2
NegRange == 1
MaxCols == 3
MaxCallers == 2

SourceIds == 1..MaxSource
TargetIds == 1..MaxTarget
SkipVals == (0 - NegRange)..MaxSkip
LimitVals == (0 - NegRange)..MaxLimit

\* ------------------------------------------------------------- variables
VARIABLES
    sources,      \* ids of the rows of the source table
    targets,      \* ids of the rows of the target table
    junction,     \* rows of the association table, <<source_id, target_id>>
    fk_enforced,  \* does the engine enforce the junction's foreign keys
    assoc,        \* what introspection of the relationship sees
    strategy,     \* M2MHelper._strategy (its class name)
    last,         \* the most recent call and what it returned
    pc,           \* per caller: position inside a concurrent add_relationship
    pending,      \* per caller: junction rows written but not yet committed
    outcome,      \* per caller: what its add_relationship call returned
    records,      \* rows of the table of the model a BaseCrud works on
    soft_delete,  \* does that model declare the deleted_at marker
    crud,         \* the most recent BaseCrud call and what it returned
    scope         \* the session_scope in progress

crud_vars == <<records, soft_delete, crud, scope>>

vars == <<sources, targets, junction, fk_enforced, assoc, strategy, last,
          pc, pending, outcome, records, soft_delete, crud, scope>>

\* ------------------------------------------------------ sequence helpers
Min(S) == CHOOSE x \in S : \A y \in S : x <= y

RECURSIVE SortedSeq(_)
\* the rows of an unordered SELECT over integer keys, in storage scan order
SortedSeq(S) == IF S = {} THEN <<>>
                ELSE <<Min(S)>> \o SortedSeq(S \ {Min(S)})

\* Python's clamping of a slice bound i against a list of length n
PyIndex(i, n) == IF i < 0 THEN (IF i + n < 0 THEN 0 ELSE i + n)
                 ELSE IF i > n THEN n ELSE i

\* Python seq[lo:hi]
PySlice(seq, lo, hi) ==
    LET a == PyIndex(lo, Len(seq))
        b == PyIndex(hi, Len(seq))
    IN  IF a < b THEN SubSeq(seq, a + 1, b) ELSE <<>>

\* Python seq[lo:]
PySliceFrom(seq, lo) == SubSeq(seq, PyIndex(lo, Len(seq)) + 1, Len(seq))

\* query.offset(skip) when skip > 0, then query.limit(limit) when limit > 0
SqlWindow(seq, skip, limit) ==
    LET afterOffset == IF skip > 0
                       THEN SubSeq(seq, (IF skip > Len(seq) THEN Len(seq) ELSE skip) + 1, Len(seq))
                       ELSE seq
    IN  IF limit > 0
        THEN SubSeq(afterOffset, 1, IF limit > Len(afterOffset) THEN Len(afterOffset) ELSE limit)
        ELSE afterOffset

\* ------------------------------------------------ ORM relationship loads
\* getattr(source, source_attr): the targets joined to the source through
\* the secondary table (rows whose target entity is missing load nothing)
source_collection(J, s) == SortedSeq({t \in targets : <<s, t>> \in J})

\* getattr(target, target_attr)
target_collection(J, t) == SortedSeq({s \in sources : <<s, t>> \in J})

InSeq(x, seq) == \E i \in 1..Len(seq) : seq[i] = x

\* the result of a write: the junction it leaves and what the caller gets,
\* "entity" (the detached source object), "None" or "raise"
WriteResult(J, k) == [junction |-> J, kind |-> k]

\* INSERT of one junction row; the composite primary key rejects a row that
\* is already stored (IntegrityError)
junction_insert(J, s, t) ==
    IF <<s, t>> \in J THEN [ok |-> FALSE, junction |-> J]
    ELSE [ok |-> TRUE, junction |-> J \cup {<<s, t>>}]

\* EfficientM2MStrategy.add_relationship catches the SQLAlchemyError of the
\* failed INSERT, logs it and returns None; the scope then commits nothing
Efficient_on_integrity_error == "None"

\* OriginalM2MStrategy.add_relationship catches the error of the failed
\* flush and returns None, but the session is left rolled back, so the
\* commit of session_scope raises and the scope re-raises to the caller
Original_on_integrity_error == "raise"

\* ------------------------------------------------- EfficientM2MStrategy
\* SELECT EXISTS (... WHERE source_fk = s AND target_fk = t)
Efficient_relationship_exists(J, s, t) == <<s, t>> \in J

\* add_relationship without the duplicate check before the INSERT
Efficient_add_relationship_no_check(J, s, t) ==
    LET ins == junction_insert(J, s, t)
    IN  IF s \notin sources \/ t \notin targets THEN WriteResult(J, "None")
        ELSE IF ins.ok THEN WriteResult(ins.junction, "entity")
        ELSE WriteResult(J, Efficient_on_integrity_error)

Efficient_add_relationship(J, s, t) ==
    LET source_exists == s \in sources
        target_exists == t \in targets
        ins == junction_insert(J, s, t)
    IN  IF ~source_exists \/ ~target_exists THEN WriteResult(J, "None")
        ELSE IF Efficient_relationship_exists(J, s, t) THEN WriteResult(J, "entity")
        ELSE IF ins.ok THEN WriteResult(ins.junction, "entity")
        ELSE WriteResult(J, Efficient_on_integrity_error)

\* remove_relationship that reports a DELETE of no row as a failure
Efficient_remove_relationship_rowcount(J, s, t) ==
    IF s \notin sources \/ <<s, t>> \notin J THEN WriteResult(J \ {<<s, t>>}, "None")
    ELSE WriteResult(J \ {<<s, t>>}, "entity")

Efficient_remove_relationship(J, s, t) ==
    LET afterDelete == J \ {<<s, t>>}
    IN  IF s \notin sources THEN WriteResult(afterDelete, "None")
        ELSE WriteResult(afterDelete, "entity")

\* SELECT target JOIN junction ON target.id = target_fk WHERE source_fk = s
Efficient_get_related_for_source(J, s, skip, limit) ==
    SqlWindow(SortedSeq({t \in targets : <<s, t>> \in J}), skip, limit)

Efficient_get_sources_for_target(J, t, skip, limit) ==
    SqlWindow(SortedSeq({s \in sources : <<s, t>> \in J}), skip, limit)

\* the count taken over the other column of the junction
Efficient_count_related_for_source_by_target(J, s) == Cardinality({r \in J : r[2] = s})

\* SELECT count(*) FROM junction WHERE source_fk = s
Efficient_count_related_for_source(J, s) == Cardinality({r \in J : r[1] = s})

Efficient_count_sources_for_target(J, t) == Cardinality({r \in J : r[2] = t})

\* -------------------------------------------------- OriginalM2MStrategy
Original_relationship_exists(J, s, t) ==
    IF s \notin sources \/ t \notin targets THEN FALSE
    ELSE InSeq(t, source_collection(J, s))

Original_add_relationship(J, s, t) ==
    LET ins == junction_insert(J, s, t)
    IN  IF s \notin sources \/ t \notin targets THEN WriteResult(J, "None")
        ELSE IF ~InSeq(t, source_collection(J, s))
             THEN (IF ins.ok THEN WriteResult(ins.junction, "entity")
                   ELSE WriteResult(J, Original_on_integrity_error))
             ELSE WriteResult(J, "entity")

\* remove_relationship that never flushes the removal
Original_remove_relationship_unflushed(J, s, t) ==
    IF s \notin sources \/ t \notin targets THEN WriteResult(J, "None")
    ELSE WriteResult(J, "entity")

Original_remove_relationship(J, s, t) ==
    IF s \notin sources \/ t \notin targets THEN WriteResult(J, "None")
    ELSE IF InSeq(t, source_collection(J, s))
         THEN WriteResult(J \ {<<s, t>>}, "entity")
         ELSE WriteResult(J, "entity")

Original_get_related_for_source(J, s, skip, limit) ==
    IF s \notin sources THEN <<>>
    ELSE LET coll == source_collection(J, s)
         IN  IF skip > 0 \/ limit > 0
             THEN (IF limit > 0 THEN PySlice(coll, skip, skip + limit)
                   ELSE PySliceFrom(coll, skip))
             ELSE coll

Original_get_sources_for_target(J, t, skip, limit) ==
    IF t \notin targets THEN <<>>
    ELSE LET related_items == target_collection(J, t)
         IN  IF skip > 0 \/ limit > 0
             THEN (IF limit > 0 THEN PySlice(related_items, skip, skip + limit)
                   ELSE PySliceFrom(related_items, skip))
             ELSE related_items

Original_count_related_for_source(J, s) ==
    IF s \notin sources THEN 0 ELSE Len(source_collection(J, s))

Original_count_sources_for_target(J, t) ==
    IF t \notin targets THEN 0 ELSE Len(target_collection(J, t))

\* the session scopes a call opens
OneScope == 1
TwoScopes == 2

\* Every method of a strategy is one with session_scope() block.
\* EfficientM2MStrategy.add_relationship calls self.relationship_exists
\* inside its block once both endpoints were found, and that method opens a
\* scope of its own.
Efficient_add_relationship_scopes(s, t) ==
    IF s \in sources /\ t \in targets THEN TwoScopes ELSE OneScope

\* ------------------------------------------------------------ M2MHelper
Efficient == "EfficientM2MStrategy"

M2MHelper_add_relationship_scopes(st, s, t) ==
    IF st = Efficient THEN Efficient_add_relationship_scopes(s, t) ELSE OneScope
Original == "OriginalM2MStrategy"

M2MHelper_add_relationship(st, J, s, t) ==
    IF st = Efficient THEN Efficient_add_relationship(J, s, t)
    ELSE Original_add_relationship(J, s, t)

M2MHelper_remove_relationship(st, J, s, t) ==
    IF st = Efficient THEN Efficient_remove_relationship(J, s, t)
    ELSE Original_remove_relationship(J, s, t)

M2MHelper_relationship_exists(st, J, s, t) ==
    IF st = Efficient THEN Efficient_relationship_exists(J, s, t)
    ELSE Original_relationship_exists(J, s, t)

M2MHelper_get_related_for_source(st, J, s, skip, limit) ==
    IF st = Efficient THEN Efficient_get_related_for_source(J, s, skip, limit)
    ELSE Original_get_related_for_source(J, s, skip, limit)

M2MHelper_get_sources_for_target(st, J, t, skip, limit) ==
    IF st = Efficient THEN Efficient_get_sources_for_target(J, t, skip, limit)
    ELSE Original_get_sources_for_target(J, t, skip, limit)

M2MHelper_count_related_for_source(st, J, s) ==
    IF st = Efficient THEN Efficient_count_related_for_source(J, s)
    ELSE Original_count_related_for_source(J, s)

M2MHelper_count_sources_for_target(st, J, t) ==
    IF st = Efficient THEN Efficient_count_sources_for_target(J, t)
    ELSE Original_count_sources_for_target(J, t)

\* ------------------------------------------- association introspection
\* The relationship as introspection sees it:
\*   raises       getattr(source_model, source_attr).property (or any later
\*                step) throws
\*   secondary    the relationship has a secondary table
\*   target_table the table of relationship_prop.mapper.class_
\*   cols         the junction's columns in table order; fk is the table
\*                the column's first foreign key references, "none" without
SourceTable == "users"

Col(n, f) == [name |-> n, fk |-> f]

ColumnPool ==
    { Col("user_id", "users"), Col("role_id", "roles"),
      Col("friend_id", "users"), Col("org_id", "orgs"),
      Col("created_at", "none"), Col("updated_at", "none"),
      Col("assigned_at", "none"), Col("tagged_at", "none"),
      Col("assigned_by", "none"), Col("priority", "none") }

ColumnLists ==
    UNION { { c \in [1..n -> ColumnPool] :
                \A i, j \in 1..n : i # j => c[i].name # c[j].name } : n \in 0..MaxCols }

Shapes ==
    [raises : BOOLEAN, secondary : BOOLEAN, target_table : {"roles", "users"},
     cols : ColumnLists]

NoCol == "-"

RECURSIVE ScanColumns(_, _, _, _)
\* the for-loop over association_table.columns: a later match overwrites
ScanColumns(a, i, src, tgt) ==
    IF i > Len(a.cols) THEN [source_fk_col |-> src, target_fk_col |-> tgt]
    ELSE LET col == a.cols[i]
         IN  IF col.fk = "none" THEN ScanColumns(a, i + 1, src, tgt)
             ELSE IF col.fk = SourceTable THEN ScanColumns(a, i + 1, col.name, tgt)
             ELSE IF col.fk = a.target_table THEN ScanColumns(a, i + 1, src, col.name)
             ELSE ScanColumns(a, i + 1, src, tgt)

NoInfo == [ok |-> FALSE, source_fk_col |-> NoCol, target_fk_col |-> NoCol]

get_association_table_info(a) ==
    IF a.raises THEN NoInfo
    ELSE IF ~a.secondary THEN NoInfo
    ELSE LET found == ScanColumns(a, 1, NoCol, NoCol)
         IN  IF found.source_fk_col = NoCol \/ found.target_fk_col = NoCol THEN NoInfo
             ELSE [ok |-> TRUE, source_fk_col |-> found.source_fk_col,
                   target_fk_col |-> found.target_fk_col]

allowed_extra_columns == {"created_at", "updated_at", "assigned_at", "tagged_at"}

\* the selection without the whitelist test on the extra columns
can_use_efficient_query_any_extra(a) == get_association_table_info(a).ok

can_use_efficient_query(a) ==
    LET table_info == get_association_table_info(a)
    IN  IF ~table_info.ok THEN FALSE
        ELSE LET fk_columns == {table_info.source_fk_col, table_info.target_fk_col}
                 all_columns == {a.cols[i].name : i \in 1..Len(a.cols)}
                 extra_columns == all_columns \ fk_columns
             IN  IF extra_columns # {} /\ ~(extra_columns \subseteq allowed_extra_columns)
                 THEN FALSE
                 ELSE TRUE

\* EfficientM2MStrategy.__init__ raises ValueError without table info; the
\* factory catches every exception and falls back
create_m2m_strategy(a) ==
    IF can_use_efficient_query(a)
    THEN (IF get_association_table_info(a).ok THEN Efficient ELSE Original)
    ELSE Original

SimpleShape ==
    [raises |-> FALSE, secondary |-> TRUE, target_table |-> "roles",
     cols |-> <<Col("user_id", "users"), Col("role_id", "roles")>>]

ComplexShape ==
    [raises |-> FALSE, secondary |-> TRUE, target_table |-> "roles",
     cols |-> <<Col("user_id", "users"), Col("role_id", "roles"),
                Col("assigned_by", "none")>>]

\* ------------------------------------------------------ the call record
Callers == 1..MaxCallers

NoCall ==
    [op |-> "none", s |-> 0, t |-> 0, skip |-> 0, limit |-> 0,
     kind |-> "none", linked |-> FALSE, flag |-> FALSE, num |-> 0, list |-> <<>>,
     failed |-> FALSE, scopes |-> 0]

Idle == [at |-> "idle", s |-> 0, t |-> 0]

CallersIdle ==
    /\ pc = [p \in Callers |-> Idle]
    /\ pending = [p \in Callers |-> {}]
    /\ outcome = [p \in Callers |-> "none"]

\* the BaseCrud call record: its arguments and what it returned.  An
\* Optional[int] argument is <<>> for None and <<n>> for the integer n.
None == <<>>

\* no pagination response
NoResponse == [page |-> 0, per_page |-> 0, total |-> 0, total_pages |-> 0]

NoCrud ==
    [op |-> "none", kind |-> "none", id |-> 0, filters |-> <<>>,
     page |-> 0, per_page |-> 0, response |-> NoResponse,
     statements |-> <<>>, arrived |-> {},
     search_query |-> <<>>, search_fields |-> <<>>, sort_by |-> "id",
     sort_desc |-> FALSE, skip |-> 0, limit |-> None, include_deleted |-> FALSE,
     rows |-> <<>>, num |-> 0, error |-> "", scopes |-> 0]

NoScope ==
    [at |-> "none", body |-> "none", commit |-> "none", before |-> {},
     staged |-> {}, written |-> {}, commits |-> 0, rollbacks |-> 0, closes |-> 0,
     raised |-> FALSE,
     batch_size |-> 0, processor |-> FALSE, offset |-> 0, total_processed |-> 0,
     batch_results |-> <<>>, processed |-> <<>>, returned |-> None]

CrudIdle ==
    /\ records = {}
    /\ soft_delete = FALSE
    /\ crud = NoCrud
    /\ scope = NoScope

\* ------------------------------------------------------------ BaseCrud
\* create: INSERT of a row whose id the engine assigns (an id not in use)
CreateSource(id) ==
    /\ id \notin sources
    /\ sources' = sources \cup {id}
    /\ last' = [NoCall EXCEPT !.op = "create_source", !.s = id, !.kind = "entity"]
    /\ UNCHANGED <<crud_vars, targets, junction, fk_enforced, assoc, strategy, pc, pending, outcome>>

CreateTarget(id) ==
    /\ id \notin targets
    /\ targets' = targets \cup {id}
    /\ last' = [NoCall EXCEPT !.op = "create_target", !.t = id, !.kind = "entity"]
    /\ UNCHANGED <<crud_vars, sources, junction, fk_enforced, assoc, strategy, pc, pending, outcome>>

\* delete: session.delete(instance); the unit of work also deletes the
\* secondary rows of the instance's loaded relationship collection
DeleteSource(id) ==
    /\ IF id \notin sources
       THEN /\ UNCHANGED <<sources, junction>>
            /\ last' = [NoCall EXCEPT !.op = "delete_source", !.s = id, !.flag = FALSE]
       ELSE /\ sources' = sources \ {id}
            /\ junction' = junction \ {<<id, t>> : t \in targets}
            /\ last' = [NoCall EXCEPT !.op = "delete_source", !.s = id, !.flag = TRUE]
    /\ UNCHANGED <<crud_vars, targets, fk_enforced, assoc, strategy, pc, pending, outcome>>

DeleteTarget(id) ==
    /\ IF id \notin targets
       THEN /\ UNCHANGED <<targets, junction>>
            /\ last' = [NoCall EXCEPT !.op = "delete_target", !.t = id, !.flag = FALSE]
       ELSE /\ targets' = targets \ {id}
            /\ junction' = junction \ {<<s, id>> : s \in sources}
            /\ last' = [NoCall EXCEPT !.op = "delete_target", !.t = id, !.flag = TRUE]
    /\ UNCHANGED <<crud_vars, sources, fk_enforced, assoc, strategy, pc, pending, outcome>>

\* delete_all: one bulk DELETE of the rows D the filters match; it touches
\* the entity table only, so an engine that enforces the junction's foreign
\* keys rejects it when a matched row is still referenced
DeleteAllSources(D) ==
    /\ D \subseteq sources
    /\ IF fk_enforced /\ (\E r \in junction : r[1] \in D)
       THEN /\ UNCHANGED sources
            /\ last' = [NoCall EXCEPT !.op = "delete_all_sources", !.kind = "raise"]
       ELSE /\ sources' = sources \ D
            /\ last' = [NoCall EXCEPT !.op = "delete_all_sources", !.kind = "value",
                                      !.num = Cardinality(D)]
    /\ UNCHANGED <<crud_vars, targets, junction, fk_enforced, assoc, strategy, pc, pending, outcome>>

DeleteAllTargets(D) ==
    /\ D \subseteq targets
    /\ IF fk_enforced /\ (\E r \in junction : r[2] \in D)
       THEN /\ UNCHANGED targets
            /\ last' = [NoCall EXCEPT !.op = "delete_all_targets", !.kind = "raise"]
       ELSE /\ targets' = targets \ D
            /\ last' = [NoCall EXCEPT !.op = "delete_all_targets", !.kind = "value",
                                      !.num = Cardinality(D)]
    /\ UNCHANGED <<crud_vars, sources, junction, fk_enforced, assoc, strategy, pc, pending, outcome>>

\* ------------------------------------------- M2MHelper calls, one caller
AddRelationship(s, t) ==
    LET r == M2MHelper_add_relationship(strategy, junction, s, t)
    IN  /\ junction' = r.junction
        /\ last' = [NoCall EXCEPT !.op = "add_relationship", !.s = s, !.t = t,
                                  !.kind = r.kind, !.linked = (<<s, t>> \in junction),
                                  !.scopes = M2MHelper_add_relationship_scopes(strategy, s, t)]
        /\ UNCHANGED <<crud_vars, sources, targets, fk_enforced, assoc, strategy, pc, pending, outcome>>

RemoveRelationship(s, t) ==
    LET r == M2MHelper_remove_relationship(strategy, junction, s, t)
    IN  /\ junction' = r.junction
        /\ last' = [NoCall EXCEPT !.op = "remove_relationship", !.s = s, !.t = t,
                                  !.kind = r.kind, !.linked = (<<s, t>> \in junction),
                                  !.scopes = OneScope]
        /\ UNCHANGED <<crud_vars, sources, targets, fk_enforced, assoc, strategy, pc, pending, outcome>>

RelationshipExists(s, t) ==
    /\ last' = [NoCall EXCEPT !.op = "relationship_exists", !.scopes = OneScope, !.s = s, !.t = t,
                              !.kind = "value",
                              !.flag = M2MHelper_relationship_exists(strategy, junction, s, t)]
    /\ UNCHANGED <<crud_vars, sources, targets, junction, fk_enforced, assoc, strategy, pc, pending, outcome>>

GetRelatedForSource(s, skip, limit) ==
    /\ last' = [NoCall EXCEPT !.op = "get_related_for_source", !.scopes = OneScope, !.s = s,
                              !.skip = skip, !.limit = limit, !.kind = "value",
                              !.list = M2MHelper_get_related_for_source(strategy, junction, s, skip, limit)]
    /\ UNCHANGED <<crud_vars, sources, targets, junction, fk_enforced, assoc, strategy, pc, pending, outcome>>

GetSourcesForTarget(t, skip, limit) ==
    /\ last' = [NoCall EXCEPT !.op = "get_sources_for_target", !.scopes = OneScope, !.t = t,
                              !.skip = skip, !.limit = limit, !.kind = "value",
                              !.list = M2MHelper_get_sources_for_target(strategy, junction, t, skip, limit)]
    /\ UNCHANGED <<crud_vars, sources, targets, junction, fk_enforced, assoc, strategy, pc, pending, outcome>>

CountRelatedForSource(s) ==
    /\ last' = [NoCall EXCEPT !.op = "count_related_for_source", !.scopes = OneScope, !.s = s, !.kind = "value",
                              !.num = M2MHelper_count_related_for_source(strategy, junction, s)]
    /\ UNCHANGED <<crud_vars, sources, targets, junction, fk_enforced, assoc, strategy, pc, pending, outcome>>

CountSourcesForTarget(t) ==
    /\ last' = [NoCall EXCEPT !.op = "count_sources_for_target", !.scopes = OneScope, !.t = t, !.kind = "value",
                              !.num = M2MHelper_count_sources_for_target(strategy, junction, t)]
    /\ UNCHANGED <<crud_vars, sources, targets, junction, fk_enforced, assoc, strategy, pc, pending, outcome>>

\* ------------------------------------------------------- specification
Init ==
    /\ sources = {}
    /\ targets = {}
    /\ junction = {}
    /\ fk_enforced \in BOOLEAN
    /\ assoc \in {SimpleShape, ComplexShape}
    /\ strategy = create_m2m_strategy(assoc)
    /\ last = NoCall
    /\ CallersIdle
    /\ CrudIdle

Next ==
    \/ \E id \in SourceIds : CreateSource(id)
    \/ \E id \in TargetIds : CreateTarget(id)
    \/ \E id \in SourceIds : DeleteSource(id)
    \/ \E id \in TargetIds : DeleteTarget(id)
    \/ \E D \in SUBSET SourceIds : DeleteAllSources(D)
    \/ \E D \in SUBSET TargetIds : DeleteAllTargets(D)
    \/ \E s \in SourceIds, t \in TargetIds : AddRelationship(s, t)
    \/ \E s \in SourceIds, t \in TargetIds : RemoveRelationship(s, t)
    \/ \E s \in SourceIds, t \in TargetIds : RelationshipExists(s, t)
    \/ \E s \in SourceIds : CountRelatedForSource(s)
    \/ \E t \in TargetIds : CountSourcesForTarget(t)

Spec == Init /\ [][Next]_vars

TypeOK ==
    /\ sources \subseteq SourceIds
    /\ targets \subseteq TargetIds
    /\ junction \subseteq SourceIds \X TargetIds
    /\ strategy \in {Efficient, Original}

\* ------------------------------------------------ M2MHelper construction
Unconstructed == "unconstructed"

\* M2MHelper.__init__: self._strategy = create_m2m_strategy(...)
Construct ==
    /\ strategy = Unconstructed
    /\ strategy' = create_m2m_strategy(assoc)
    /\ last' = [NoCall EXCEPT !.op = "M2MHelper", !.kind = "entity"]
    /\ UNCHANGED <<crud_vars, sources, targets, junction, fk_enforced, assoc, pc, pending, outcome>>

InitSelect ==
    /\ sources = {}
    /\ targets = {}
    /\ junction = {}
    /\ fk_enforced = FALSE
    /\ assoc \in Shapes
    /\ strategy = Unconstructed
    /\ last = NoCall
    /\ CallersIdle
    /\ CrudIdle

NextSelect == Construct

SpecSelect == InitSelect /\ [][NextSelect]_vars

\* ------------------------------------- relationship calls on fixed tables
InitLinks ==
    /\ sources \in SUBSET SourceIds
    /\ targets \in SUBSET TargetIds
    /\ junction = {}
    /\ fk_enforced \in BOOLEAN
    /\ assoc \in {SimpleShape, ComplexShape}
    /\ strategy = create_m2m_strategy(assoc)
    /\ last = NoCall
    /\ CallersIdle
    /\ CrudIdle

NextLinks ==
    \/ \E s \in SourceIds, t \in TargetIds : AddRelationship(s, t)
    \/ \E s \in SourceIds, t \in TargetIds : RemoveRelationship(s, t)
    \/ \E s \in SourceIds, t \in TargetIds : RelationshipExists(s, t)

SpecLinks == InitLinks /\ [][NextLinks]_vars

\* ------------------------------------- paged reads of the relationships
NextReads ==
    \/ \E id \in SourceIds : CreateSource(id)
    \/ \E id \in TargetIds : CreateTarget(id)
    \/ \E s \in SourceIds, t \in TargetIds : AddRelationship(s, t)
    \/ \E s \in SourceIds, t \in TargetIds : RemoveRelationship(s, t)
    \/ \E s \in SourceIds, skip \in SkipVals, limit \in LimitVals :
          GetRelatedForSource(s, skip, limit)
    \/ \E t \in TargetIds, skip \in SkipVals, limit \in LimitVals :
          GetSourcesForTarget(t, skip, limit)

SpecReads == Init /\ [][NextReads]_vars

\* ------------------------------ add_relationship, callers running at once
\* Every caller has its own session, hence its own transaction: it reads
\* committed rows (and its own writes) and its INSERT becomes visible to the
\* others at its commit.  An INSERT of a key that another open transaction
\* has written waits for that transaction to end.
AddBegin(p, s, t) ==
    /\ pc[p].at = "idle"
    /\ pc' = [pc EXCEPT ![p] = [at |-> "endpoints", s |-> s, t |-> t]]
    /\ UNCHANGED <<crud_vars, sources, targets, junction, fk_enforced, assoc, strategy, last,
                   pending, outcome>>

\* the existence checks of source and target
AddCheckEndpoints(p) ==
    /\ pc[p].at = "endpoints"
    /\ IF pc[p].s \notin sources \/ pc[p].t \notin targets
       THEN /\ outcome' = [outcome EXCEPT ![p] = "None"]
            /\ pc' = [pc EXCEPT ![p].at = "commit"]
       ELSE /\ pc' = [pc EXCEPT ![p].at = "duplicate"]
            /\ UNCHANGED outcome
    /\ UNCHANGED <<crud_vars, sources, targets, junction, fk_enforced, assoc, strategy, last, pending>>

\* self.relationship_exists(...) / target not in source_collection
AddCheckDuplicate(p) ==
    /\ pc[p].at = "duplicate"
    /\ IF M2MHelper_relationship_exists(strategy, junction \cup pending[p], pc[p].s, pc[p].t)
       THEN /\ outcome' = [outcome EXCEPT ![p] = "entity"]
            /\ pc' = [pc EXCEPT ![p].at = "commit"]
       ELSE /\ pc' = [pc EXCEPT ![p].at = "insert"]
            /\ UNCHANGED outcome
    /\ UNCHANGED <<crud_vars, sources, targets, junction, fk_enforced, assoc, strategy, last, pending>>

\* the INSERT (association_table.insert() / append and flush)
AddInsert(p) ==
    LET ins == junction_insert(junction, pc[p].s, pc[p].t)
    IN  /\ pc[p].at = "insert"
        /\ \A q \in Callers \ {p} : <<pc[p].s, pc[p].t>> \notin pending[q]
        /\ IF ins.ok
           THEN /\ pending' = [pending EXCEPT ![p] = {<<pc[p].s, pc[p].t>>}]
                /\ outcome' = [outcome EXCEPT ![p] = "entity"]
           ELSE /\ UNCHANGED pending
                /\ outcome' = [outcome EXCEPT ![p] =
                                  IF strategy = Efficient THEN Efficient_on_integrity_error
                                  ELSE Original_on_integrity_error]
        /\ pc' = [pc EXCEPT ![p].at = "commit"]
        /\ UNCHANGED <<crud_vars, sources, targets, junction, fk_enforced, assoc, strategy, last>>

\* the end of session_scope: commit, or rollback when the call raises
AddCommit(p) ==
    /\ pc[p].at = "commit"
    /\ junction' = IF outcome[p] = "raise" THEN junction ELSE junction \cup pending[p]
    /\ pending' = [pending EXCEPT ![p] = {}]
    /\ pc' = [pc EXCEPT ![p].at = "done"]
    /\ last' = [NoCall EXCEPT !.op = "add_relationship", !.s = pc[p].s, !.t = pc[p].t,
                              !.kind = outcome[p], !.num = p]
    /\ UNCHANGED <<crud_vars, sources, targets, fk_enforced, assoc, strategy, outcome>>

InitRace ==
    /\ sources \in SUBSET SourceIds
    /\ targets \in SUBSET TargetIds
    /\ junction \in SUBSET (sources \X targets)
    /\ fk_enforced = TRUE
    /\ assoc \in {SimpleShape, ComplexShape}
    /\ strategy = create_m2m_strategy(assoc)
    /\ last = NoCall
    /\ CallersIdle
    /\ CrudIdle

NextRace ==
    \/ \E p \in Callers, s \in SourceIds, t \in TargetIds : AddBegin(p, s, t)
    \/ \E p \in Callers : AddCheckEndpoints(p)
    \/ \E p \in Callers : AddCheckDuplicate(p)
    \/ \E p \in Callers : AddInsert(p)
    \/ \E p \in Callers : AddCommit(p)

SpecRace == InitRace /\ [][NextRace]_vars

\* ===================================================================
\* Properties
\* ===================================================================
DefaultSkip == 0
DefaultLimit == 100

\* C1: for a simple junction shape, in every state and for every pair of
\* ids (existing or not), relationship_exists of EfficientM2MStrategy and of
\* OriginalM2MStrategy return the same boolean.
C1_relationship_exists_equivalent ==
    assoc = SimpleShape =>
        \A s \in SourceIds, t \in TargetIds :
            Efficient_relationship_exists(junction, s, t)
                = Original_relationship_exists(junction, s, t)

\* C2: for a simple junction shape, in every state and for every id,
\* count_related_for_source and count_sources_for_target of
\* EfficientM2MStrategy equal those of OriginalM2MStrategy.
C2_counts_equivalent ==
    assoc = SimpleShape =>
        /\ \A s \in SourceIds :
              Efficient_count_related_for_source(junction, s)
                  = Original_count_related_for_source(junction, s)
        /\ \A t \in TargetIds :
              Efficient_count_sources_for_target(junction, t)
                  = Original_count_sources_for_target(junction, t)

\* C3: for a simple junction shape, in every state, for every id and every
\* integer skip and limit, get_related_for_source and get_sources_for_target
\* return the same list of ids from both strategies.
C3_retrieval_equivalent ==
    assoc = SimpleShape =>
        \A skip \in SkipVals, limit \in LimitVals :
            /\ \A s \in SourceIds :
                  Efficient_get_related_for_source(junction, s, skip, limit)
                      = Original_get_related_for_source(junction, s, skip, limit)
            /\ \A t \in TargetIds :
                  Efficient_get_sources_for_target(junction, t, skip, limit)
                      = Original_get_sources_for_target(junction, t, skip, limit)

\* A column is matched to the source when its foreign key references the
\* source table, and to the target when it references the target table
\* and not the source table.
ShapeQualifies(a) ==
    /\ ~a.raises
    /\ a.secondary
    /\ \E i, j \in 1..Len(a.cols) :
          /\ a.cols[i].fk = SourceTable
          /\ a.cols[j].fk = a.target_table /\ a.cols[j].fk # SourceTable
          /\ \A k \in 1..Len(a.cols) \ {i, j} :
                a.cols[k].name \in {"created_at", "updated_at", "assigned_at", "tagged_at"}

\* C4: constructing an M2MHelper never raises, and it selects
\* EfficientM2MStrategy exactly when the relationship has a secondary
\* table, both foreign-key columns are matched to the source and target
\* tables and every other junction column is whitelisted; otherwise it
\* selects OriginalM2MStrategy.
C4_strategy_selection ==
    strategy # Unconstructed =>
        /\ last.kind # "raise"
        /\ strategy \in {Efficient, Original}
        /\ (strategy = Efficient) <=> ShapeQualifies(assoc)

\* an Efficient helper over a junction with a whitelisted extra column
C4_witness ==
    /\ strategy = Efficient
    /\ Len(assoc.cols) = 3

\* C5: add_relationship is idempotent under the helper's strategy: for
\* existing a and b, a second add_relationship(a, b) leaves the state the
\* first call produced, in which (a, b) is linked, and returns the source
\* entity.
C5_add_idempotent ==
    /\ \A a \in sources, b \in targets :
          LET first == M2MHelper_add_relationship(strategy, junction, a, b)
              second == M2MHelper_add_relationship(strategy, first.junction, a, b)
          IN  /\ first.kind = "entity"
              /\ <<a, b>> \in first.junction
              /\ second.junction = first.junction
              /\ second.kind = "entity"
    /\ (last.op = "add_relationship" /\ last.linked
          /\ last.s \in sources /\ last.t \in targets)
       => (last.kind = "entity" /\ <<last.s, last.t>> \in junction)

\* an add_relationship on a pair that was already linked has returned
C5_witness ==
    /\ last.op = "add_relationship"
    /\ last.linked
    /\ last.s \in sources /\ last.t \in targets
    /\ last.kind = "entity"
    /\ <<last.s, last.t>> \in junction

\* C6: when two callers run add_relationship(a, b) at once for an existing
\* pair, the junction ends with the (a, b) row and both calls return the
\* source entity.
C6_concurrent_add_both_succeed ==
    \A p, q \in Callers :
        (/\ p # q
         /\ pc[p].at = "done" /\ pc[q].at = "done"
         /\ pc[p].s = pc[q].s /\ pc[p].t = pc[q].t
         /\ pc[p].s \in sources /\ pc[p].t \in targets)
        => /\ outcome[p] = "entity"
           /\ outcome[q] = "entity"
           /\ <<pc[p].s, pc[p].t>> \in junction

\* C7: in every state and for every pair of ids, add_relationship and
\* remove_relationship return the same kind of result and leave the same
\* link set under both strategies.
C7_writes_equivalent ==
    \A s \in SourceIds, t \in TargetIds :
        /\ Efficient_add_relationship(junction, s, t)
              = Original_add_relationship(junction, s, t)
        /\ Efficient_remove_relationship(junction, s, t)
              = Original_remove_relationship(junction, s, t)

\* C8: remove_relationship(a, b) on existing, unlinked a and b returns the
\* source entity and changes no junction row and no entity row.
C8_remove_unlinked_noop ==
    [][ (/\ last'.op = "remove_relationship"
         /\ last'.s \in sources /\ last'.t \in targets
         /\ <<last'.s, last'.t>> \notin junction)
        => (/\ last'.kind = "entity"
            /\ junction' = junction
            /\ sources' = sources
            /\ targets' = targets) ]_vars

\* a remove_relationship on an existing, unlinked pair has returned
C8_witness ==
    /\ last.op = "remove_relationship"
    /\ ~last.linked
    /\ last.s \in sources /\ last.t \in targets
    /\ last.kind = "entity"

\* C9: with a missing source or target, add_relationship returns None and
\* inserts nothing; with both missing, remove_relationship returns None
\* and changes no link, relationship_exists is False,
\* get_related_for_source is empty and count_related_for_source is 0.
C9_missing_endpoint_inert ==
    \A s \in SourceIds, t \in TargetIds :
        /\ (s \notin sources \/ t \notin targets) =>
              M2MHelper_add_relationship(strategy, junction, s, t)
                  = WriteResult(junction, "None")
        /\ (s \notin sources /\ t \notin targets) =>
              /\ M2MHelper_remove_relationship(strategy, junction, s, t)
                    = WriteResult(junction, "None")
              /\ ~M2MHelper_relationship_exists(strategy, junction, s, t)
              /\ M2MHelper_get_related_for_source(strategy, junction, s,
                                                  DefaultSkip, DefaultLimit) = <<>>
              /\ M2MHelper_count_related_for_source(strategy, junction, s) = 0

\* C10: for existing a and b and calls of add_relationship and
\* remove_relationship only, relationship_exists(a, b) is True after
\* add_relationship(a, b), False after remove_relationship(a, b), and is
\* changed by no other call.
C10_exists_follows_last_call ==
    [][ \A a \in sources, b \in targets :
          LET before == M2MHelper_relationship_exists(strategy, junction, a, b)
              after == M2MHelper_relationship_exists(strategy, junction', a, b)
              named == last'.s = a /\ last'.t = b
          IN  /\ (last'.op = "add_relationship" /\ named) => after
              /\ (last'.op = "remove_relationship" /\ named) => ~after
              /\ ~(last'.op \in {"add_relationship", "remove_relationship"} /\ named)
                    => (after = before) ]_vars

\* a remove_relationship has unlinked a pair that an add_relationship linked
C10_witness ==
    /\ last.op = "remove_relationship"
    /\ last.linked
    /\ last.s \in sources /\ last.t \in targets
    /\ last.kind = "entity"
    /\ ~M2MHelper_relationship_exists(strategy, junction, last.s, last.t)

\* ===================================================================
\* BaseCrud and StringSchemaHelper: filtered reads of one model's table
\* (simple_sqlalchemy/crud.py, simple_sqlalchemy/helpers/string_schema.py)
\* ===================================================================
m2m_vars == <<sources, targets, junction, fk_enforced, assoc, strategy, last,
              pc, pending, outcome>>

\* the many-to-many part at rest, as the main specification starts it
M2MIdle ==
    /\ sources = {}
    /\ targets = {}
    /\ junction = {}
    /\ fk_enforced = FALSE
    /\ assoc = SimpleShape
    /\ strategy = create_m2m_strategy(assoc)
    /\ last = NoCall
    /\ CallersIdle

\* ------------------------------------------------------------ bounds
MaxId == 2
MaxAge == 2

RecordIds == 1..MaxId
Ages == 1..MaxAge

\* -------------------------------------------------------- SQL values
\* A column value or a bound parameter is a sequence of integers: <<n>>
\* for the integer n, the code points of a string, NULL for SQL NULL (no
\* integer stored is negative and no code point is).
NULL == <<0 - 1>>

SqlInt(n) == <<n>>

\* the code points the model's strings are made of
Percent == 37
Underscore == 95
UpperA == 65
UpperZ == 90
CaseOffset == 32

\* comparison of two non-NULL values: integers by value, strings by code
\* point (binary collation)
RECURSIVE SqlLess(_, _)

SqlLess(a, b) ==
    IF b = <<>> THEN FALSE
    ELSE IF a = <<>> THEN TRUE
    ELSE IF a[1] # b[1] THEN a[1] < b[1]
    ELSE SqlLess(Tail(a), Tail(b))

\* lower() of the engine, on the ASCII letters
Lower(text) ==
    [i \in 1..Len(text) |->
        IF text[i] >= UpperA /\ text[i] <= UpperZ THEN text[i] + CaseOffset ELSE text[i]]

\* text LIKE pat: % stands for any run of characters, _ for any one
RECURSIVE LikeMatch(_, _)

LikeMatch(text, pat) ==
    IF pat = <<>> THEN text = <<>>
    ELSE IF pat[1] = Percent
         THEN LikeMatch(text, Tail(pat))
              \/ (text # <<>> /\ LikeMatch(Tail(text), pat))
    ELSE /\ text # <<>>
         /\ (pat[1] = Underscore \/ pat[1] = text[1])
         /\ LikeMatch(Tail(text), Tail(pat))

\* ----------------------------------------------------- Python values
\* A value of the filter DSL: None, an int, a str (its code points), a list
\* of ints (an element 0 - 1 is a None in the list) or a dict, kept as the
\* sequence of its (key, value) items in insertion order.
PyNone == [ty |-> "None", items |-> <<>>, ops |-> <<>>]

PyInt(n) == [ty |-> "int", items |-> <<n>>, ops |-> <<>>]

PyStr(text) == [ty |-> "str", items |-> text, ops |-> <<>>]

PyList(list) == [ty |-> "list", items |-> list, ops |-> <<>>]

PyDict(ops) == [ty |-> "dict", items |-> <<>>, ops |-> ops]

Item(k, v) == [key |-> k, val |-> v]

\* 'k' in value
HasKey(value, k) == \E i \in 1..Len(value.ops) : value.ops[i].key = k

\* value[k]
GetItem(value, k) == value.ops[CHOOSE i \in 1..Len(value.ops) : value.ops[i].key = k].val

\* value.get(k)
Get(value, k) == IF HasKey(value, k) THEN GetItem(value, k) ELSE PyNone

\* the bound parameter a scalar becomes
Bind(value) == IF value.ty = "None" THEN NULL ELSE value.items

\* the bound parameters a list becomes
BindList(value) == [i \in 1..Len(value.items) |-> SqlInt(value.items[i])]

\* -------------------------------------------------------- the model
\* hasattr(self.model, field): the mapped columns of the model
ModelFields ==
    {"id", "age", "name", "email"} \cup (IF soft_delete THEN {"deleted_at"} ELSE {})

hasattr(field) == field \in ModelFields

Row(id, age, name, email, deleted_at) ==
    [id |-> id, age |-> age, name |-> name, email |-> email, deleted_at |-> deleted_at]

\* getattr(instance, field)
Column(row, field) ==
    CASE field = "id" -> SqlInt(row.id)
      [] field = "age" -> row.age
      [] field = "name" -> row.name
      [] field = "email" -> row.email
      [] field = "deleted_at" -> row.deleted_at

\* -------------------------------------------------- predicate clauses
\* query.filter(...) of one column operator; args are bound parameters
Clause(op, field, args) == [op |-> op, field |-> field, args |-> args]

\* does the row satisfy the clause (a comparison with NULL is not true;
\* where engines differ the model follows SQLite, the engine of the
\* repository's tests: its LIKE ignores the case of ASCII letters)
Eval(c, row) ==
    LET col == Column(row, c.field)
        a == c.args
    IN  CASE c.op = "is_" -> col = NULL
          [] c.op = "is_not" -> col # NULL
          [] c.op = "==" -> col # NULL /\ a[1] # NULL /\ col = a[1]
          [] c.op = "in_" -> col # NULL /\ \E i \in 1..Len(a) : col = a[i]
          [] c.op = "not_in" ->
                Len(a) = 0 \/ (col # NULL /\ \A i \in 1..Len(a) : a[i] # NULL /\ col # a[i])
          [] c.op = ">=" -> col # NULL /\ a[1] # NULL /\ ~SqlLess(col, a[1])
          [] c.op = "<=" -> col # NULL /\ a[1] # NULL /\ ~SqlLess(a[1], col)
          [] c.op = ">" -> col # NULL /\ a[1] # NULL /\ SqlLess(a[1], col)
          [] c.op = "<" -> col # NULL /\ a[1] # NULL /\ SqlLess(col, a[1])
          [] c.op = "between" ->
                /\ col # NULL /\ a[1] # NULL /\ a[2] # NULL
                /\ ~SqlLess(col, a[1]) /\ ~SqlLess(a[2], col)
          [] c.op = "like" ->
                col # NULL /\ a[1] # NULL /\ LikeMatch(Lower(col), Lower(a[1]))
          [] c.op = "ilike" ->
                col # NULL /\ a[1] # NULL /\ LikeMatch(Lower(col), Lower(a[1]))
          [] c.op = "== dict" -> FALSE

\* ------------------------------------------------------------ queries
\* session.query(self.model): the WHERE clauses (ANDed), the or_() group of
\* the text search, ORDER BY, OFFSET and LIMIT; kind "raise" once building
\* it has raised (field: the filter entry that raised, named: the message
\* names the field and the supported operators)
NewQuery ==
    [kind |-> "ok", field |-> "", named |-> FALSE, where |-> <<>>, any |-> <<>>,
     order |-> "", desc |-> FALSE, offset |-> None, limit |-> None]

Filter(query, clause) == [query EXCEPT !.where = Append(@, clause)]

Raise(query, field, named) ==
    [query EXCEPT !.kind = "raise", !.field = field, !.named = named]

\* start, end = value['between']
Unpacks(value) == value.ty \in {"list", "str"} /\ Len(value.items) = 2

\* variant: {'not': None} taken for the IS NULL test
BaseCrud_apply_operator_not_as_null(query, field, value) ==
    IF HasKey(value, "not") /\ Get(value, "not").ty = "None"
    THEN Filter(query, Clause("is_", field, <<>>))
    ELSE Raise(query, field, TRUE)

\* variant: the upper bound is tested before the lower bound
BaseCrud_apply_operator_upper_first(query, field, value) ==
    IF HasKey(value, "<=")
    THEN Filter(query, Clause("<=", field, <<Bind(GetItem(value, "<="))>>))
    ELSE IF HasKey(value, ">=")
    THEN Filter(query, Clause(">=", field, <<Bind(GetItem(value, ">="))>>))
    ELSE Raise(query, field, TRUE)

\* the isinstance(value, dict) branch of BaseCrud._apply_filters
BaseCrud_apply_operator(query, field, value) ==
    IF HasKey(value, "not") /\ Get(value, "not").ty = "None"
    THEN Filter(query, Clause("is_not", field, <<>>))
    ELSE IF HasKey(value, ">=")
    THEN Filter(query, Clause(">=", field, <<Bind(GetItem(value, ">="))>>))
    ELSE IF HasKey(value, "<=")
    THEN Filter(query, Clause("<=", field, <<Bind(GetItem(value, "<="))>>))
    ELSE IF HasKey(value, ">")
    THEN Filter(query, Clause(">", field, <<Bind(GetItem(value, ">"))>>))
    ELSE IF HasKey(value, "<")
    THEN Filter(query, Clause("<", field, <<Bind(GetItem(value, "<"))>>))
    ELSE IF HasKey(value, "between")
    THEN IF Unpacks(GetItem(value, "between"))
         THEN Filter(query, Clause("between", field, BindList(GetItem(value, "between"))))
         ELSE Raise(query, field, FALSE)
    ELSE IF HasKey(value, "not_in")
    THEN Filter(query, Clause("not_in", field, BindList(GetItem(value, "not_in"))))
    ELSE IF HasKey(value, "like")
    THEN Filter(query, Clause("like", field, <<Bind(GetItem(value, "like"))>>))
    ELSE IF HasKey(value, "ilike")
    THEN Filter(query, Clause("ilike", field, <<Bind(GetItem(value, "ilike"))>>))
    ELSE Raise(query, field, TRUE)

\* variant: an entry on a name the model lacks is an error
BaseCrud_apply_filter_strict(query, field, value) ==
    IF ~hasattr(field) THEN Raise(query, field, TRUE)
    ELSE IF value.ty = "list" THEN Filter(query, Clause("in_", field, BindList(value)))
    ELSE IF value.ty = "None" THEN Filter(query, Clause("is_", field, <<>>))
    ELSE Filter(query, Clause("==", field, <<Bind(value)>>))

\* one turn of the loop of BaseCrud._apply_filters
BaseCrud_apply_filter(query, field, value) ==
    IF ~hasattr(field) THEN query
    ELSE IF value.ty = "list" THEN Filter(query, Clause("in_", field, BindList(value)))
    ELSE IF value.ty = "None" THEN Filter(query, Clause("is_", field, <<>>))
    ELSE IF value.ty = "dict" THEN BaseCrud_apply_operator(query, field, value)
    ELSE Filter(query, Clause("==", field, <<Bind(value)>>))

\* BaseCrud._apply_filters; filters is filters.items(), <<>> for None or {}
RECURSIVE BaseCrud_apply_filters(_, _)

BaseCrud_apply_filters(query, filters) ==
    IF filters = <<>> \/ query.kind # "ok" THEN query
    ELSE BaseCrud_apply_filters(
             BaseCrud_apply_filter(query, Head(filters).key, Head(filters).val),
             Tail(filters))

\* one turn of the loop of StringSchemaHelper._apply_filters
StringSchemaHelper_apply_filter(query, field, value) ==
    IF ~hasattr(field) THEN query
    ELSE IF value.ty = "list" THEN Filter(query, Clause("in_", field, BindList(value)))
    ELSE IF value.ty = "None" THEN Filter(query, Clause("is_", field, <<>>))
    ELSE IF value.ty = "dict" /\ Get(value, "not").ty = "None"
    THEN Filter(query, Clause("is_not", field, <<>>))
    ELSE IF value.ty = "dict" THEN Filter(query, Clause("== dict", field, <<>>))
    ELSE Filter(query, Clause("==", field, <<Bind(value)>>))

\* StringSchemaHelper._apply_filters
RECURSIVE StringSchemaHelper_apply_filters(_, _)

StringSchemaHelper_apply_filters(query, filters) ==
    IF filters = <<>> \/ query.kind # "ok" THEN query
    ELSE StringSchemaHelper_apply_filters(
             StringSchemaHelper_apply_filter(query, Head(filters).key, Head(filters).val),
             Tail(filters))

\* the search_conditions of _apply_search: ilike(f"%{search_query}%") on
\* every search field the model has
RECURSIVE search_conditions(_, _)

search_conditions(search_query, search_fields) ==
    IF search_fields = <<>> THEN <<>>
    ELSE (IF hasattr(Head(search_fields))
          THEN <<Clause("ilike", Head(search_fields),
                        <<(<<Percent>> \o search_query) \o <<Percent>>>>)>>
          ELSE <<>>)
         \o search_conditions(search_query, Tail(search_fields))

\* BaseCrud._apply_search and StringSchemaHelper._apply_search (same code)
apply_search(query, search_query, search_fields) ==
    IF search_query = <<>> \/ search_fields = <<>> THEN query
    ELSE [query EXCEPT !.any = search_conditions(search_query, search_fields)]

\* BaseCrud._has_soft_delete
has_soft_delete == soft_delete

\* variant: soft-deleted rows are never filtered out
BaseCrud_apply_soft_delete_filter_off(query, include_deleted) ==
    IF ~include_deleted /\ has_soft_delete /\ include_deleted
    THEN Filter(query, Clause("is_", "deleted_at", <<>>))
    ELSE query

\* BaseCrud._apply_soft_delete_filter
BaseCrud_apply_soft_delete_filter(query, include_deleted) ==
    IF ~include_deleted /\ has_soft_delete
    THEN Filter(query, Clause("is_", "deleted_at", <<>>))
    ELSE query

\* StringSchemaHelper._apply_soft_delete_filter
StringSchemaHelper_apply_soft_delete_filter(query, include_deleted) ==
    IF hasattr("deleted_at") /\ ~include_deleted
    THEN Filter(query, Clause("is_", "deleted_at", <<>>))
    ELSE query

\* BaseCrud._apply_sorting and StringSchemaHelper._apply_sorting (same code)
apply_sorting(query, sort_by, sort_desc) ==
    IF hasattr(sort_by) THEN [query EXCEPT !.order = sort_by, !.desc = sort_desc]
    ELSE query

\* BaseCrud._apply_pagination; limit is None or <<n>>
BaseCrud_apply_pagination(query, limit, skip) ==
    LET q == IF skip > 0 THEN [query EXCEPT !.offset = <<skip>>] ELSE query
    IN  IF limit # None /\ limit[1] # 0 /\ limit[1] > 0
        THEN [q EXCEPT !.limit = limit]
        ELSE q

\* StringSchemaHelper._apply_pagination
StringSchemaHelper_apply_pagination(query, limit, skip) ==
    LET q == IF skip > 0 THEN [query EXCEPT !.offset = <<skip>>] ELSE query
    IN  IF limit # None
        THEN [q EXCEPT !.limit = limit]
        ELSE q

\* BaseCrud._build_base_query (eager loading does not change the rows)
BaseCrud_build_base_query(filters, search_query, search_fields, sort_by, sort_desc, limit, skip, include_deleted) ==
    LET filtered == BaseCrud_apply_filters(NewQuery, filters)
    IN  IF filtered.kind # "ok" THEN filtered
        ELSE BaseCrud_apply_pagination(
                 apply_sorting(
                     BaseCrud_apply_soft_delete_filter(
                         apply_search(filtered, search_query, search_fields),
                         include_deleted),
                     sort_by, sort_desc),
                 limit, skip)

\* StringSchemaHelper._build_base_query
StringSchemaHelper_build_base_query(filters, search_query, search_fields, sort_by, sort_desc, limit, skip, include_deleted) ==
    LET filtered == StringSchemaHelper_apply_filters(NewQuery, filters)
    IN  IF filtered.kind # "ok" THEN filtered
        ELSE StringSchemaHelper_apply_pagination(
                 apply_sorting(
                     StringSchemaHelper_apply_soft_delete_filter(
                         apply_search(filtered, search_query, search_fields),
                         include_deleted),
                     sort_by, sort_desc),
                 limit, skip)

\* ---------------------------------------------------------- execution
\* the rows of the table that satisfy the WHERE part of the query
Matching(query, table) ==
    {r \in table :
        /\ \A i \in 1..Len(query.where) : Eval(query.where[i], r)
        /\ query.any = <<>> \/ \E i \in 1..Len(query.any) : Eval(query.any[i], r)}

\* ORDER BY field [DESC]; rows with equal keys come in storage scan order
Before(r, q, field, desc) ==
    LET a == Column(r, field)
        b == Column(q, field)
    IN  IF a = b THEN r.id < q.id
        ELSE IF desc THEN SqlLess(b, a) ELSE SqlLess(a, b)

RECURSIVE OrderBy(_, _, _)

OrderBy(S, field, desc) ==
    IF S = {} THEN <<>>
    ELSE LET first == CHOOSE r \in S : \A q \in S \ {r} : Before(r, q, field, desc)
         IN  <<first>> \o OrderBy(S \ {first}, field, desc)

\* OFFSET n and LIMIT n as the engine applies them (SQLite, the engine of
\* the repository's tests, reads a negative LIMIT as no limit)
Window(seq, offset, limit) ==
    LET n == IF offset = None THEN 0
             ELSE IF offset[1] > Len(seq) THEN Len(seq) ELSE offset[1]
        rest == SubSeq(seq, n + 1, Len(seq))
    IN  IF limit = None \/ limit[1] < 0 \/ limit[1] > Len(rest) THEN rest
        ELSE SubSeq(rest, 1, limit[1])

\* the bound parameter of comparing a column with a dict is one no driver
\* adapts: executing the statement raises
Executable(query) == \A i \in 1..Len(query.where) : query.where[i].op # "== dict"

Ids(seq) == [i \in 1..Len(seq) |-> seq[i].id]

Returned(k, rows, n) == [kind |-> k, rows |-> rows, num |-> n, error |-> ""]

\* the call raises
Raised(error) == [kind |-> "raise", rows |-> <<>>, num |-> 0, error |-> error]

\* the exception that ends a call on the query: the ValueError of
\* _apply_filters (its message names the field and the supported operators),
\* the failed unpacking of a 'between' value, or the driver's error
ErrorOf(query) ==
    IF query.kind = "ok" THEN "StatementError"
    ELSE IF query.named THEN "ValueError: Invalid filter format"
    ELSE "ValueError: unpack"

\* query.all(): the ids of the rows, in order
all(query, table) ==
    IF query.kind # "ok" \/ ~Executable(query) THEN Raised(ErrorOf(query))
    ELSE LET hits == Matching(query, table)
             ordered == IF query.order = "" THEN OrderBy(hits, "id", FALSE)
                        ELSE OrderBy(hits, query.order, query.desc)
             page == Ids(Window(ordered, query.offset, query.limit))
         IN  Returned("value", page, Len(page))

\* query.scalar() of SELECT count(id), query.count()
count_rows(query, table) ==
    IF query.kind # "ok" \/ ~Executable(query) THEN Raised(ErrorOf(query))
    ELSE Returned("value", <<>>, Cardinality(Matching(query, table)))

\* ------------------------------------------------------------- reads
\* the default of get_multi's and search's limit argument
GetMultiLimit == 100

\* BaseCrud.get_multi
BaseCrud_get_multi(table, skip, limit, filters, sort_by, sort_desc, include_deleted) ==
    all(BaseCrud_build_base_query(filters, <<>>, <<>>, sort_by, sort_desc,
                                  limit, skip, include_deleted), table)

\* BaseCrud.search
BaseCrud_search(table, search_query, search_fields, skip, limit, filters, sort_by, sort_desc, include_deleted) ==
    all(BaseCrud_build_base_query(filters, search_query, search_fields, sort_by,
                                  sort_desc, limit, skip, include_deleted), table)

\* BaseCrud.count
BaseCrud_count(table, filters, include_deleted) ==
    count_rows(BaseCrud_apply_soft_delete_filter(
                   BaseCrud_apply_filters(NewQuery, filters), include_deleted), table)

\* BaseCrud.get_by_id
BaseCrud_get_by_id(table, record_id, include_deleted) ==
    LET byId == Filter(NewQuery, Clause("==", "id", <<SqlInt(record_id)>>))
        query == IF ~include_deleted /\ has_soft_delete
                 THEN Filter(byId, Clause("is_", "deleted_at", <<>>))
                 ELSE byId
        found == all(query, table)
    IN  IF found.rows = <<>> THEN Returned("None", <<>>, 0)
        ELSE Returned("entity", <<Head(found.rows)>>, 1)

\* StringSchemaHelper.query_with_schema (BaseCrud.query_with_schema passes
\* its arguments on): the rows it converts to dictionaries
StringSchemaHelper_query_with_schema(table, filters, search_query, search_fields, sort_by, sort_desc, limit, skip, include_deleted) ==
    all(StringSchemaHelper_build_base_query(filters, search_query, search_fields,
                                            sort_by, sort_desc, limit, skip,
                                            include_deleted), table)

\* validate_pagination_params(page, per_page, max_per_page=1000, ...)
MaxPerPage == 1000

validate_pagination_params(page, per_page) ==
    page >= 1 /\ per_page >= 1 /\ per_page <= MaxPerPage

\* StringSchemaHelper.paginated_query_with_schema: the items of the page and
\* the total
StringSchemaHelper_paginated_query_with_schema(table, page, per_page, filters, include_deleted) ==
    IF ~validate_pagination_params(page, per_page)
    THEN Raised("ValueError: pagination")
    ELSE LET total == count_rows(
                          StringSchemaHelper_build_base_query(
                              filters, <<>>, <<>>, "id", FALSE, None, 0, include_deleted),
                          table)
             items == StringSchemaHelper_query_with_schema(
                          table, filters, <<>>, <<>>, "id", FALSE, <<per_page>>,
                          (page - 1) * per_page, include_deleted)
         IN  IF total.kind = "raise" THEN total
             ELSE IF items.kind = "raise" THEN items
             ELSE Returned("value", items.rows, total.num)

\* calculate_pagination: total_pages = ceil(total / per_page), 1 for an empty
\* result, and the page clamped to it
calculate_pagination(page, per_page, total) ==
    LET total_pages == IF total > 0 THEN (total + per_page - 1) \div per_page ELSE 1
    IN  [page |-> IF page < total_pages THEN page ELSE total_pages,
         per_page |-> per_page, total |-> total, total_pages |-> total_pages]

\* build_pagination_response: the page information returned beside the items
build_pagination_response(items, page, per_page, total) ==
    calculate_pagination(page, per_page, total)

\* the response of paginated_query_with_schema, when it returns one
pagination_response(r, page, per_page) ==
    IF r.kind = "value" THEN build_pagination_response(r.rows, page, per_page, r.num)
    ELSE NoResponse

\* StringSchemaHelper.aggregate_with_schema with aggregations
\* {"total": "count(id)"} and no group_by
StringSchemaHelper_aggregate_with_schema(table, filters, include_deleted) ==
    count_rows(StringSchemaHelper_apply_soft_delete_filter(
                   StringSchemaHelper_apply_filters(NewQuery, filters),
                   include_deleted), table)

\* what a call leaves in the call record
Call(op, args, r, scopes) ==
    [args EXCEPT !.op = op, !.kind = r.kind, !.rows = r.rows, !.num = r.num,
                 !.error = r.error, !.scopes = scopes]

GetMulti(skip, limit, filters, sort_by, sort_desc, include_deleted) ==
    /\ crud' = Call("get_multi",
                    [NoCrud EXCEPT !.skip = skip, !.limit = limit, !.filters = filters,
                                   !.sort_by = sort_by, !.sort_desc = sort_desc,
                                   !.include_deleted = include_deleted],
                    BaseCrud_get_multi(records, skip, limit, filters, sort_by,
                                       sort_desc, include_deleted),
                    OneScope)
    /\ UNCHANGED <<m2m_vars, records, soft_delete, scope>>

Search(search_query, search_fields, skip, limit, filters, sort_by, sort_desc, include_deleted) ==
    /\ crud' = Call("search",
                    [NoCrud EXCEPT !.search_query = search_query,
                                   !.search_fields = search_fields,
                                   !.skip = skip, !.limit = limit, !.filters = filters,
                                   !.sort_by = sort_by, !.sort_desc = sort_desc,
                                   !.include_deleted = include_deleted],
                    BaseCrud_search(records, search_query, search_fields, skip, limit,
                                    filters, sort_by, sort_desc, include_deleted),
                    OneScope)
    /\ UNCHANGED <<m2m_vars, records, soft_delete, scope>>

Count(filters, include_deleted) ==
    /\ crud' = Call("count",
                    [NoCrud EXCEPT !.filters = filters,
                                   !.include_deleted = include_deleted],
                    BaseCrud_count(records, filters, include_deleted),
                    OneScope)
    /\ UNCHANGED <<m2m_vars, records, soft_delete, scope>>

GetById(record_id, include_deleted) ==
    /\ crud' = Call("get_by_id",
                    [NoCrud EXCEPT !.id = record_id,
                                   !.include_deleted = include_deleted],
                    BaseCrud_get_by_id(records, record_id, include_deleted),
                    OneScope)
    /\ UNCHANGED <<m2m_vars, records, soft_delete, scope>>

QueryWithSchema(filters, search_query, search_fields, sort_by, sort_desc, limit, skip, include_deleted) ==
    /\ crud' = Call("query_with_schema",
                    [NoCrud EXCEPT !.search_query = search_query,
                                   !.search_fields = search_fields,
                                   !.skip = skip, !.limit = limit, !.filters = filters,
                                   !.sort_by = sort_by, !.sort_desc = sort_desc,
                                   !.include_deleted = include_deleted],
                    StringSchemaHelper_query_with_schema(
                        records, filters, search_query, search_fields, sort_by,
                        sort_desc, limit, skip, include_deleted),
                    OneScope)
    /\ UNCHANGED <<m2m_vars, records, soft_delete, scope>>

PaginatedQueryWithSchema(page, per_page, filters, include_deleted) ==
    /\ crud' = Call("paginated_query_with_schema",
                    [NoCrud EXCEPT !.skip = (page - 1) * per_page,
                                   !.limit = <<per_page>>, !.filters = filters,
                                   !.include_deleted = include_deleted,
                                   !.page = page, !.per_page = per_page,
                                   !.response = pagination_response(
                                       StringSchemaHelper_paginated_query_with_schema(
                                           records, page, per_page, filters, include_deleted),
                                       page, per_page)],
                    StringSchemaHelper_paginated_query_with_schema(
                        records, page, per_page, filters, include_deleted),
                    IF validate_pagination_params(page, per_page) THEN TwoScopes ELSE 0)
    /\ UNCHANGED <<m2m_vars, records, soft_delete, scope>>

AggregateWithSchema(filters, include_deleted) ==
    /\ crud' = Call("aggregate_with_schema",
                    [NoCrud EXCEPT !.filters = filters,
                                   !.include_deleted = include_deleted],
                    StringSchemaHelper_aggregate_with_schema(records, filters,
                                                             include_deleted),
                    OneScope)
    /\ UNCHANGED <<m2m_vars, records, soft_delete, scope>>

\* ------------------------------------ filters on a column: the inputs
\* the values of the integer column age, and of a list element
AgeColumn == {NULL} \cup {SqlInt(a) : a \in Ages}

IntOrNone == Ages \cup {0 - 1}

IntLists ==
    {<<>>} \cup {<<a>> : a \in IntOrNone} \cup {<<a, b>> : a \in IntOrNone, b \in IntOrNone}

\* the operator keys in the order BaseCrud._apply_filters tests them
OperatorKeys == <<"not", ">=", "<=", ">", "<", "between", "not_in", "like", "ilike">>

\* a key that is no operator
Frobnicate == "frobnicate"

IsOperatorKey(k) == \E i \in 1..Len(OperatorKeys) : OperatorKeys[i] = k

\* the values a key of an operator map on the integer column is given
Operands(k) ==
    CASE k = "not" -> {PyNone} \cup {PyInt(a) : a \in Ages}
      [] k \in {">=", "<=", ">", "<"} -> {PyInt(a) : a \in Ages}
      [] k = "between" -> {PyList(l) : l \in IntLists \ {<<>>}}
      [] k = "not_in" -> {PyList(l) : l \in IntLists}
      [] OTHER -> {PyInt(MaxAge)}

IntKeys == {"not", ">=", "<=", ">", "<", "between", "not_in", Frobnicate}

\* the keys that operator maps of two keys are made of
PairKeys == <<"not", ">=", "<=", ">", "<", Frobnicate>>

OneKeyDicts ==
    UNION {{PyDict(<<Item(k, v)>>) : v \in Operands(k)} : k \in IntKeys}

TwoKeyDicts ==
    UNION {{PyDict(<<Item(PairKeys[p[1]], v), Item(PairKeys[p[2]], w)>>) :
               v \in Operands(PairKeys[p[1]]), w \in Operands(PairKeys[p[2]])} :
           p \in {q \in (1..Len(PairKeys)) \X (1..Len(PairKeys)) : q[1] # q[2]}}

PlainValues ==
    {PyNone} \cup {PyInt(a) : a \in Ages} \cup {PyList(l) : l \in IntLists}

\* every value the filter of the integer column takes
AgeValues == PlainValues \cup {PyDict(<<>>)} \cup OneKeyDicts \cup TwoKeyDicts

\* a name the model has no attribute of, and the values given to it
UnknownField == "nickname"

UnknownValues == {PyInt(MaxAge), PyDict(<<Item(Frobnicate, PyInt(MaxAge))>>)}

\* the filter maps of the reads: none, one entry, an entry on the column
\* with an entry on the unknown name before or after it
FilterSpecs ==
    {<<>>}
    \cup {<<Item("age", v)>> : v \in AgeValues}
    \cup {<<Item(UnknownField, u)>> : u \in UnknownValues}
    \cup {<<Item("age", v), Item(UnknownField, u)>> :
             v \in PlainValues \cup OneKeyDicts, u \in UnknownValues}
    \cup {<<Item(UnknownField, u), Item("age", v)>> :
             v \in PlainValues \cup OneKeyDicts, u \in UnknownValues}

\* a read is asked for: its arguments are chosen, it has not run
Asked(args) == [args EXCEPT !.op = "call", !.kind = "asked"]

Pending == crud.kind = "asked"

\* ------------------------ specification: filtered reads of a fixed table
InitFilter ==
    /\ M2MIdle
    /\ \E ids \in SUBSET RecordIds, age \in [RecordIds -> AgeColumn] :
           records = {Row(i, age[i], NULL, NULL, NULL) : i \in ids}
    /\ soft_delete = FALSE
    /\ \E F \in FilterSpecs : crud = Asked([NoCrud EXCEPT !.filters = F])
    /\ scope = NoScope

FilteredGetMulti ==
    /\ Pending
    /\ GetMulti(0, <<GetMultiLimit>>, crud.filters, "id", FALSE, FALSE)

FilteredCount ==
    /\ Pending
    /\ Count(crud.filters, FALSE)

FilteredQueryWithSchema ==
    /\ Pending
    /\ QueryWithSchema(crud.filters, <<>>, <<>>, "id", FALSE, None, 0, FALSE)

FilteredPaginatedQueryWithSchema ==
    /\ Pending
    /\ PaginatedQueryWithSchema(1, GetMultiLimit, crud.filters, FALSE)

FilteredAggregateWithSchema ==
    /\ Pending
    /\ AggregateWithSchema(crud.filters, FALSE)

NextFilter ==
    \/ FilteredGetMulti
    \/ FilteredCount
    \/ FilteredQueryWithSchema
    \/ FilteredPaginatedQueryWithSchema
    \/ FilteredAggregateWithSchema

SpecFilter == InitFilter /\ [][NextFilter]_vars

\* ===================================================================
\* Properties of the filter compiler
\* ===================================================================
\* the reads that take a filter map
FilteredReads ==
    {"get_multi", "search", "count", "query_with_schema",
     "paginated_query_with_schema", "aggregate_with_schema"}

\* an operator map with none of the recognized operators
Unrecognized(value) ==
    /\ value.ty = "dict"
    /\ ~(HasKey(value, "not") /\ Get(value, "not").ty = "None")
    /\ \A i \in 1..Len(OperatorKeys) :
           OperatorKeys[i] # "not" => ~HasKey(value, OperatorKeys[i])

\* the rows a call returned, as a set of ids
ReturnedIds == {crud.rows[i] : i \in 1..Len(crud.rows)}

\* the entry of the filter map on the column age, when it is the only one
\* on a field of the model
OnlyAge(value) == crud.filters = <<Item("age", value)>>

\* C11: a filtered read whose filter map holds, for a field of the model, an
\* operator map with none of the recognized operators (the empty map and
\* {'not': <non-null>} included) raises the ValueError that names the field
\* and the supported operators; it returns no rows.
C11_unrecognized_operator_raises ==
    (/\ crud.op \in FilteredReads
     /\ \E i \in 1..Len(crud.filters) :
            hasattr(crud.filters[i].key) /\ Unrecognized(crud.filters[i].val))
    => (crud.kind = "raise" /\ crud.error = "ValueError: Invalid filter format")

\* the rows of the table the reference semantics of a plain value selects:
\* a scalar the rows equal to it, None the rows whose column is NULL, a list
\* the rows whose column is one of its elements (SQL membership: a NULL
\* column is in no list), {'not': None} the rows whose column is not NULL
ReferenceRows(value) ==
    CASE value.ty = "int" -> {r \in records : r.age = <<value.items[1]>>}
      [] value.ty = "None" -> {r \in records : r.age = NULL}
      [] value.ty = "list" ->
            {r \in records :
                r.age # NULL /\ \E i \in 1..Len(value.items) : value.items[i] = r.age[1]}
      [] value.ty = "dict" -> {r \in records : r.age # NULL}

HasReference(value) ==
    \/ value.ty \in {"int", "None", "list"}
    \/ value = PyDict(<<Item("not", PyNone)>>)

\* C12: a read filtered on the single field age by a scalar, None, a list
\* or {'not': None} returns exactly the reference rows of that value shape
\* (and count returns their number).
C12_single_field_reference ==
    \A value \in PlainValues \cup {PyDict(<<Item("not", PyNone)>>)} :
        (OnlyAge(value) /\ HasReference(value)) =>
            /\ crud.op \in {"get_multi", "query_with_schema"} =>
                   /\ crud.kind = "value"
                   /\ ReturnedIds = {r.id : r \in ReferenceRows(value)}
                   /\ Len(crud.rows) = Cardinality(ReferenceRows(value))
            /\ crud.op = "count" =>
                   /\ crud.kind = "value"
                   /\ crud.num = Cardinality(ReferenceRows(value))

\* C12 witness: a list filter and a {'not': None} filter have each selected
\* some rows of the table and left others out
C12_witness ==
    /\ crud.op = "get_multi"
    /\ crud.kind = "value"
    /\ \/ \E l \in IntLists : OnlyAge(PyList(l))
       \/ OnlyAge(PyDict(<<Item("not", PyNone)>>))
    /\ crud.rows # <<>>
    /\ Len(crud.rows) < Cardinality(records)

\* an operator map that carries a lower and an upper bound
IsRange(value, lowKey, highKey) ==
    /\ value.ty = "dict"
    /\ Len(value.ops) = Len(<<lowKey, highKey>>)
    /\ HasKey(value, lowKey)
    /\ HasKey(value, highKey)

RowOf(id) == CHOOSE r \in records : r.id = id

\* C14: a read filtered by {'>=': lo, '<=': hi} (or {'>=': lo, '<': hi}) on
\* the field age returns only rows whose age lies in lo <= age <= hi
\* (respectively lo <= age < hi).
C14_range_applies_both_bounds ==
    \A value \in TwoKeyDicts :
        (/\ crud.op \in {"get_multi", "count"}
         /\ OnlyAge(value)
         /\ IsRange(value, ">=", "<=") \/ IsRange(value, ">=", "<"))
        => LET lo == GetItem(value, ">=").items[1]
               inRange ==
                   {r \in records :
                       /\ r.age # NULL
                       /\ lo <= r.age[1]
                       /\ IF HasKey(value, "<=")
                          THEN r.age[1] <= GetItem(value, "<=").items[1]
                          ELSE r.age[1] < GetItem(value, "<").items[1]}
           IN  /\ crud.kind = "value"
               /\ crud.op = "get_multi" => ReturnedIds = {r.id : r \in inRange}
               /\ crud.op = "count" => crud.num = Cardinality(inRange)

\* the entries of a filter map on fields the model has
RECURSIVE KnownOnly(_)

KnownOnly(filters) ==
    IF filters = <<>> THEN <<>>
    ELSE (IF hasattr(Head(filters).key) THEN <<Head(filters)>> ELSE <<>>)
         \o KnownOnly(Tail(filters))

Outcome(r) == [kind |-> r.kind, rows |-> r.rows, num |-> r.num, error |-> r.error]

\* C15: an entry of the filter map on a name the model has no attribute of
\* is skipped: get_multi and count return what they return for the map
\* restricted to the fields of the model, and a map of unknown entries only
\* never raises, whatever their values.
C15_unknown_field_skipped ==
    /\ crud.op = "get_multi" =>
           Outcome(crud) = BaseCrud_get_multi(records, crud.skip, crud.limit,
                                              KnownOnly(crud.filters), crud.sort_by,
                                              crud.sort_desc, crud.include_deleted)
    /\ crud.op = "count" =>
           Outcome(crud) = BaseCrud_count(records, KnownOnly(crud.filters),
                                          crud.include_deleted)
    /\ (crud.op \in {"get_multi", "count"} /\ KnownOnly(crud.filters) = <<>>) =>
           crud.kind = "value"

\* C15 witness: get_multi has run with an operator map of no recognized key
\* on the unknown name next to a filter on age that left rows out
C15_witness ==
    /\ crud.op = "get_multi"
    /\ crud.kind = "value"
    /\ \E i \in 1..Len(crud.filters) :
           /\ crud.filters[i].key = UnknownField
           /\ Unrecognized(crud.filters[i].val)
    /\ \E i \in 1..Len(crud.filters) : crud.filters[i].key = "age"
    /\ crud.rows # <<>>
    /\ Len(crud.rows) < Cardinality(records)

\* C16: the schema-based reads select what the model-based reads select for
\* the same filter map and include_deleted flag, and raise in the same cases:
\* query_with_schema and paginated_query_with_schema return the rows of
\* get_multi, paginated_query_with_schema and aggregate_with_schema count the
\* rows count counts.
C16_schema_reads_equivalent ==
    LET model == BaseCrud_get_multi(records, 0, None, crud.filters, "id", FALSE,
                                    crud.include_deleted)
        counted == BaseCrud_count(records, crud.filters, crud.include_deleted)
    IN  /\ crud.op \in {"query_with_schema", "paginated_query_with_schema"} =>
               /\ crud.kind = model.kind
               /\ crud.rows = model.rows
        /\ crud.op \in {"paginated_query_with_schema", "aggregate_with_schema"} =>
               /\ crud.kind = counted.kind
               /\ crud.num = counted.num

\* ===================================================================
\* Text search and filters on several fields
\* ===================================================================
\* the strings of the text columns: "a", "Ab" in name, "b" in email
LowerA == 97
LowerB == 98
UpperB == 66

Names == {NULL, <<LowerA>>, <<UpperA, LowerB>>}

Emails == {NULL, <<LowerB>>}

\* the texts searched for: "a", "B" and the single character "_"
SearchQueries == {<<>>, <<LowerA>>, <<UpperB>>, <<Underscore>>}

SearchFields ==
    {<<>>, <<"name">>, <<"name", "email">>, <<UnknownField>>, <<UnknownField, "email">>}

\* filter values of the column name, and of the column email
NameValues ==
    {PyNone, PyStr(<<LowerA>>),
     PyDict(<<Item("like", PyStr(<<UpperA, Percent>>))>>),
     PyDict(<<Item("ilike", PyStr(<<Percent, LowerB>>))>>)}

EmailValues == {PyNone, PyDict(<<Item("not", PyNone)>>)}

SearchFilterSpecs ==
    {<<>>}
    \cup {<<Item("name", v)>> : v \in NameValues}
    \cup {<<Item("email", w)>> : w \in EmailValues}
    \cup {<<Item("name", v), Item("email", w)>> : v \in NameValues, w \in EmailValues}
    \cup {<<Item("email", w), Item("name", v)>> : v \in NameValues, w \in EmailValues}

InitSearch ==
    /\ M2MIdle
    /\ \E ids \in SUBSET RecordIds, name \in [RecordIds -> Names],
          email \in [RecordIds -> Emails] :
           records = {Row(i, NULL, name[i], email[i], NULL) : i \in ids}
    /\ soft_delete = FALSE
    /\ \E F \in SearchFilterSpecs, q \in SearchQueries, fields \in SearchFields :
           crud = Asked([NoCrud EXCEPT !.filters = F, !.search_query = q,
                                       !.search_fields = fields])
    /\ scope = NoScope

SearchAsked ==
    /\ Pending
    /\ Search(crud.search_query, crud.search_fields, 0, <<GetMultiLimit>>,
              crud.filters, "id", FALSE, FALSE)

SearchAskedWithSchema ==
    /\ Pending
    /\ QueryWithSchema(crud.filters, crud.search_query, crud.search_fields,
                       "id", FALSE, None, 0, FALSE)

NextSearch ==
    \/ SearchAsked
    \/ SearchAskedWithSchema

SpecSearch == InitSearch /\ [][NextSearch]_vars

\* text contains part as a substring
Contains(text, part) ==
    \E i \in 0..Len(text) :
        /\ i + Len(part) <= Len(text)
        /\ SubSeq(text, i + 1, i + Len(part)) = part

\* the predicate of one entry of the filter map, taken alone
Satisfies(row, entry) ==
    LET query == BaseCrud_apply_filter(NewQuery, entry.key, entry.val)
    IN  \A i \in 1..Len(query.where) : Eval(query.where[i], row)

\* the row matches the text, case-insensitively, as a substring of at least
\* one of the search fields
MatchesText(row, text, fields) ==
    \E i \in 1..Len(fields) :
        /\ hasattr(fields[i])
        /\ Column(row, fields[i]) # NULL
        /\ Contains(Lower(Column(row, fields[i])), Lower(text))

\* C13: a filtered read returns exactly the rows that satisfy the predicate
\* of every entry of the filter map and, when a search text and search fields
\* are given, contain the text case-insensitively as a substring of at least
\* one search field.
C13_filters_and_search ==
    (crud.op = "search" /\ crud.kind = "value") =>
        ReturnedIds =
            {r.id : r \in
                {r \in records :
                    /\ \A i \in 1..Len(crud.filters) : Satisfies(r, crud.filters[i])
                    /\ (crud.search_query # <<>> /\ crud.search_fields # <<>>) =>
                           MatchesText(r, crud.search_query, crud.search_fields)}}

\* ===================================================================
\* Sorting and the pagination window
\* ===================================================================
SortFields == {"id", "age", UnknownField}

PageLimits == {None} \cup {<<n>> : n \in LimitVals}

PageFilterSpecs == {<<>>, <<Item("age", PyDict(<<Item("not", PyNone)>>))>>}

InitPage ==
    /\ M2MIdle
    /\ \E ids \in SUBSET RecordIds, age \in [RecordIds -> AgeColumn] :
           records = {Row(i, age[i], NULL, NULL, NULL) : i \in ids}
    /\ soft_delete = FALSE
    /\ \E F \in PageFilterSpecs, skip \in SkipVals, limit \in PageLimits,
          sort_by \in SortFields, sort_desc \in BOOLEAN :
           crud = Asked([NoCrud EXCEPT !.filters = F, !.skip = skip, !.limit = limit,
                                       !.sort_by = sort_by, !.sort_desc = sort_desc])
    /\ scope = NoScope

\* get_multi and search declare limit: int, query_with_schema Optional[int]
PagedGetMulti ==
    /\ Pending
    /\ GetMulti(crud.skip, crud.limit, crud.filters, crud.sort_by, crud.sort_desc, FALSE)

PagedSearch ==
    /\ Pending
    /\ Search(<<>>, <<>>, crud.skip, crud.limit, crud.filters, crud.sort_by,
              crud.sort_desc, FALSE)

PagedQueryWithSchema ==
    /\ Pending
    /\ QueryWithSchema(crud.filters, <<>>, <<>>, crud.sort_by, crud.sort_desc,
                       crud.limit, crud.skip, FALSE)

NextPage ==
    \/ PagedGetMulti
    \/ PagedSearch
    \/ PagedQueryWithSchema

SpecPage == InitPage /\ [][NextPage]_vars

\* the elements [skip, skip + limit) of a list: no offset for skip <= 0, no
\* upper bound for a limit that is absent or 0
PageOf(seq, skip, limit) ==
    LET from == IF skip <= 0 THEN 0 ELSE IF skip > Len(seq) THEN Len(seq) ELSE skip
        upto == IF limit = None \/ limit = <<0>> \/ from + limit[1] > Len(seq)
                THEN Len(seq)
                ELSE from + limit[1]
    IN  SubSeq(seq, from + 1, upto)

\* C19: a paged read (get_multi, search, query_with_schema) sorted by a field
\* of the model returns the elements [skip, skip + limit) of the filtered
\* rows in the order of that field, ascending unless sort_desc; skip <= 0
\* applies no offset and a limit that is 0 or absent no upper bound.
C19_pagination_window ==
    (/\ crud.op \in {"get_multi", "search", "query_with_schema"}
     /\ hasattr(crud.sort_by)
     /\ crud.limit = None \/ crud.limit[1] >= 0)
    => LET filtered == {r \in records :
                           \A i \in 1..Len(crud.filters) : Satisfies(r, crud.filters[i])}
           sorted == OrderBy(filtered, crud.sort_by, crud.sort_desc)
       IN  /\ crud.kind = "value"
           /\ crud.rows = Ids(PageOf(sorted, crud.skip, crud.limit))
           /\ \A i \in 1..Len(crud.rows), j \in 1..Len(crud.rows) :
                  i < j => LET a == Column(RowOf(crud.rows[i]), crud.sort_by)
                               b == Column(RowOf(crud.rows[j]), crud.sort_by)
                           IN  IF crud.sort_desc THEN ~SqlLess(a, b) ELSE ~SqlLess(b, a)

\* ===================================================================
\* BaseCrud writes and the soft-delete marker
\* ===================================================================
\* datetime.now(timezone.utc): some timestamp, never NULL
Now == SqlInt(0)

\* what a write leaves: the table, what the call returns and the session
\* scopes it opened
Written(table, r, scopes) == [table |-> table, r |-> r, scopes |-> scopes]

UnsupportedSoftDelete == "ValueError: does not support soft delete"

\* setattr(instance, key, value) for a key the instance has
SetAttr(row, key, value) ==
    IF hasattr(key) /\ key # "id" THEN [row EXCEPT ![key] = value] ELSE row

\* BaseCrud.create with data {"id": id, "age": age, "deleted_at": deleted_at};
\* None values and keys the model lacks are dropped, so the column keeps NULL
BaseCrud_create(table, id, age, deleted_at) ==
    Written(table \cup {SetAttr(Row(id, age, NULL, NULL, NULL), "deleted_at", deleted_at)},
            Returned("entity", <<id>>, 1), OneScope)

\* BaseCrud.update with data {key: value}
BaseCrud_update(table, record_id, key, value) ==
    LET found == {r \in table :
                     /\ r.id = record_id
                     /\ has_soft_delete => r.deleted_at = NULL}
    IN  IF found = {} THEN Written(table, Returned("None", <<>>, 0), OneScope)
        ELSE Written((table \ found) \cup {SetAttr(r, key, value) : r \in found},
                     Returned("entity", <<record_id>>, 1), OneScope)

\* BaseCrud.delete
BaseCrud_delete(table, record_id) ==
    LET found == {r \in table : r.id = record_id}
    IN  IF found = {} THEN Written(table, Returned("False", <<>>, 0), OneScope)
        ELSE Written(table \ found, Returned("True", <<>>, 1), OneScope)

\* variant: no _has_soft_delete check before the update
BaseCrud_soft_delete_unchecked(table, record_id) ==
    BaseCrud_update(table, record_id, "deleted_at", Now)

\* BaseCrud.soft_delete
BaseCrud_soft_delete(table, record_id) ==
    IF ~has_soft_delete THEN Written(table, Raised(UnsupportedSoftDelete), 0)
    ELSE BaseCrud_update(table, record_id, "deleted_at", Now)

\* BaseCrud.undelete
BaseCrud_undelete(table, record_id) ==
    IF ~has_soft_delete THEN Written(table, Raised(UnsupportedSoftDelete), 0)
    ELSE LET found == {r \in table : r.id = record_id /\ r.deleted_at # NULL}
         IN  IF found = {} THEN Written(table, Returned("None", <<>>, 0), OneScope)
             ELSE Written((table \ found) \cup {[r EXCEPT !.deleted_at = NULL] : r \in found},
                          Returned("entity", <<record_id>>, 1), OneScope)

\* BaseCrud.bulk_update_fields with update_data {key: value}: one UPDATE
BaseCrud_bulk_update_fields(table, key, value, filters, include_deleted) ==
    LET filtered == BaseCrud_apply_filters(NewQuery, filters)
        query == IF ~include_deleted /\ has_soft_delete
                 THEN Filter(filtered, Clause("is_", "deleted_at", <<>>))
                 ELSE filtered
        hits == Matching(query, table)
    IN  IF query.kind # "ok" THEN Written(table, Raised(ErrorOf(query)), OneScope)
        ELSE Written((table \ hits) \cup {SetAttr(r, key, value) : r \in hits},
                     Returned("value", <<>>, Cardinality(hits)), OneScope)

\* BaseCrud.bulk_soft_delete
BaseCrud_bulk_soft_delete(table, filters) ==
    IF ~has_soft_delete THEN Written(table, Raised(UnsupportedSoftDelete), 0)
    ELSE BaseCrud_bulk_update_fields(table, "deleted_at", Now, filters, FALSE)

\* BaseCrud.bulk_restore
BaseCrud_bulk_restore(table, filters) ==
    IF ~has_soft_delete THEN Written(table, Raised(UnsupportedSoftDelete), 0)
    ELSE LET query == BaseCrud_apply_filters(
                          Filter(NewQuery, Clause("is_not", "deleted_at", <<>>)), filters)
             hits == Matching(query, table)
         IN  IF query.kind # "ok" THEN Written(table, Raised(ErrorOf(query)), OneScope)
             ELSE Written((table \ hits) \cup {[r EXCEPT !.deleted_at = NULL] : r \in hits},
                          Returned("value", <<>>, Cardinality(hits)), OneScope)

\* BaseCrud.bulk_clear_fields with clear_data {key: None}
BaseCrud_bulk_clear_fields(table, key, filters, include_deleted) ==
    BaseCrud_bulk_update_fields(table, key, NULL, filters, include_deleted)

\* BaseCrud.delete_all: query.count(), then query.delete().  arrived are the
\* rows another session commits between the two statements; the DELETE
\* acts on the table as it is when it runs.
BaseCrud_delete_all(table, filters, arrived) ==
    LET query == BaseCrud_apply_filters(NewQuery, filters)
        count == Cardinality(Matching(query, table))
        later == table \cup arrived
    IN  IF query.kind # "ok" THEN Written(table, Raised(ErrorOf(query)), OneScope)
        ELSE Written(later \ Matching(query, later), Returned("value", <<>>, count), OneScope)

BulkOperations ==
    {"bulk_update_fields", "bulk_clear_fields", "bulk_soft_delete", "bulk_restore",
     "delete_all"}

\* the statements a bulk operation that returns has executed: query.update
\* is one UPDATE, delete_all runs query.count() before query.delete()
BulkStatements(op, r) ==
    IF r.kind # "value" \/ op \notin BulkOperations THEN <<>>
    ELSE IF op = "delete_all" THEN <<"SELECT count", "DELETE">>
    ELSE <<"UPDATE">>

\* a write: the table and the call record after it
Write(op, args, w) ==
    /\ records' = w.table
    /\ crud' = [Call(op, args, w.r, w.scopes) EXCEPT !.statements = BulkStatements(op, w.r)]
    /\ UNCHANGED <<m2m_vars, soft_delete, scope>>

Create(id, age, deleted_at) ==
    /\ \A r \in records : r.id # id
    /\ Write("create", [NoCrud EXCEPT !.id = id],
             BaseCrud_create(records, id, age, deleted_at))

Update(record_id, key, value) ==
    Write("update", [NoCrud EXCEPT !.id = record_id],
          BaseCrud_update(records, record_id, key, value))

Delete(record_id) ==
    Write("delete", [NoCrud EXCEPT !.id = record_id],
          BaseCrud_delete(records, record_id))

SoftDelete(record_id) ==
    Write("soft_delete", [NoCrud EXCEPT !.id = record_id],
          BaseCrud_soft_delete(records, record_id))

Undelete(record_id) ==
    Write("undelete", [NoCrud EXCEPT !.id = record_id],
          BaseCrud_undelete(records, record_id))

BulkSoftDelete(filters) ==
    Write("bulk_soft_delete", [NoCrud EXCEPT !.filters = filters],
          BaseCrud_bulk_soft_delete(records, filters))

BulkRestore(filters) ==
    Write("bulk_restore", [NoCrud EXCEPT !.filters = filters],
          BaseCrud_bulk_restore(records, filters))

\* ------------------ specification: writes and reads of one model's table
\* the values of the marker, and the data of an update
Markers == {NULL, Now}

UpdateData ==
    {<<"age", v>> : v \in AgeColumn} \cup {<<"deleted_at", v>> : v \in Markers}
    \cup {<<UnknownField, NULL>>}

BulkFilterSpecs == PageFilterSpecs \cup {<<Item("age", PyNone)>>}

InitSoftDelete ==
    /\ M2MIdle
    /\ records = {}
    /\ soft_delete \in BOOLEAN
    /\ crud = NoCrud
    /\ scope = NoScope

NextSoftDelete ==
    \/ \E id \in RecordIds, age \in AgeColumn, deleted_at \in Markers :
           Create(id, age, deleted_at)
    \/ \E id \in RecordIds, data \in UpdateData : Update(id, data[1], data[2])
    \/ \E id \in RecordIds : Delete(id)
    \/ \E id \in RecordIds : SoftDelete(id)
    \/ \E id \in RecordIds : Undelete(id)
    \/ \E F \in BulkFilterSpecs : BulkSoftDelete(F)
    \/ \E F \in BulkFilterSpecs : BulkRestore(F)
    \/ \E id \in RecordIds, include_deleted \in BOOLEAN : GetById(id, include_deleted)
    \/ \E include_deleted \in BOOLEAN :
           GetMulti(0, <<GetMultiLimit>>, <<>>, "id", FALSE, include_deleted)
    \/ \E include_deleted \in BOOLEAN :
           Search(<<>>, <<>>, 0, <<GetMultiLimit>>, <<>>, "id", FALSE, include_deleted)
    \/ \E include_deleted \in BOOLEAN : Count(<<>>, include_deleted)
    \/ \E include_deleted \in BOOLEAN :
           QueryWithSchema(<<>>, <<>>, <<>>, "id", FALSE, None, 0, include_deleted)

SpecSoftDelete == InitSoftDelete /\ [][NextSoftDelete]_vars

\* the ids a read of the whole table shows
Visible(include_deleted) ==
    {r.id : r \in {r \in records : include_deleted \/ r.deleted_at = NULL}}

\* C17: on a model with the deleted_at marker, after any sequence of create,
\* update, soft_delete, undelete, bulk_soft_delete, bulk_restore and delete,
\* get_by_id, get_multi, search, count and query_with_schema show a record
\* with include_deleted=False exactly when it exists with deleted_at NULL and
\* with include_deleted=True whenever it exists; a soft_delete that found
\* its record leaves it invisible to the default read and an undelete that
\* found it leaves it visible with deleted_at NULL.
C17_soft_delete_visibility ==
    soft_delete =>
        /\ crud.op = "get_by_id" =>
               (crud.kind = "entity" <=> crud.id \in Visible(crud.include_deleted))
        /\ crud.op \in {"get_multi", "search", "query_with_schema"} =>
               /\ crud.kind = "value"
               /\ ReturnedIds = Visible(crud.include_deleted)
        /\ crud.op = "count" =>
               crud.num = Cardinality(Visible(crud.include_deleted))
        /\ (crud.op = "soft_delete" /\ crud.kind = "entity") =>
               /\ crud.id \in Visible(TRUE) \ Visible(FALSE)
               /\ BaseCrud_get_by_id(records, crud.id, FALSE).kind = "None"
        /\ (crud.op = "undelete" /\ crud.kind = "entity") =>
               /\ crud.id \in Visible(FALSE)
               /\ BaseCrud_get_by_id(records, crud.id, FALSE).kind = "entity"

\* C17 witness: a default get_by_id has not shown a record that exists and
\* is soft-deleted
C17_witness ==
    /\ soft_delete
    /\ crud.op = "get_by_id"
    /\ ~crud.include_deleted
    /\ crud.kind = "None"
    /\ crud.id \in Visible(TRUE) \ Visible(FALSE)

SoftDeleteOperations == {"soft_delete", "undelete", "bulk_soft_delete", "bulk_restore"}

\* C18: on a model without the deleted_at marker, soft_delete, undelete,
\* bulk_soft_delete and bulk_restore raise the ValueError before a session
\* scope is opened and leave every row of the table as it was.
C18_unsupported_soft_delete ==
    [][(~soft_delete /\ crud'.op \in SoftDeleteOperations /\ crud' # crud) =>
          /\ crud'.kind = "raise"
          /\ crud'.error = UnsupportedSoftDelete
          /\ crud'.scopes = 0
          /\ records' = records]_vars

\* C18 witness: soft_delete has raised on a model without the marker while
\* the record it names is in the table
C18_witness ==
    /\ ~soft_delete
    /\ crud.op = "soft_delete"
    /\ crud.kind = "raise"
    /\ crud.id \in Visible(TRUE)

\* ===================================================================
\* session_scope (simple_sqlalchemy/session.py), step by step
\* ===================================================================
\* scope.at is the position inside session_scope: "body" while the with
\* block runs, "commit" before session.commit(), "except" in the handler,
\* "finally" before session.close(), "done" after it.  scope.before is the
\* table when the scope was entered, scope.staged the rows the body has
\* written in the open transaction, scope.written all rows it ever wrote.

\* variant: a commit that persists nothing
Session_commit_lost(table, staged) == table

\* session.commit(): the rows of the transaction become rows of the table
Session_commit(table, staged) == table \cup staged

\* session = session_factory(); the with block is entered
ScopeEnter ==
    /\ scope.at \in {"none", "done"}
    /\ scope' = [NoScope EXCEPT !.at = "body", !.before = records]
    /\ UNCHANGED <<m2m_vars, records, soft_delete, crud>>

\* the body adds an instance and flushes
BodyWrite(id) ==
    /\ scope.at = "body"
    /\ \A r \in records \cup scope.staged : r.id # id
    /\ scope' = [scope EXCEPT !.staged = @ \cup {Row(id, NULL, NULL, NULL, NULL)},
                              !.written = @ \cup {Row(id, NULL, NULL, NULL, NULL)}]
    /\ UNCHANGED <<m2m_vars, records, soft_delete, crud>>

\* the body completes: control returns after the yield
BodyReturn ==
    /\ scope.at = "body"
    /\ scope' = [scope EXCEPT !.at = "commit", !.body = "ok"]
    /\ UNCHANGED <<m2m_vars, records, soft_delete, crud>>

\* the body raises: an Exception reaches the handler, any other
\* BaseException (KeyboardInterrupt, SystemExit) only the finally clause
BodyRaise(exception) ==
    /\ scope.at = "body"
    /\ scope' = [scope EXCEPT !.body = exception,
                              !.at = IF exception = "Exception" THEN "except"
                                     ELSE "finally"]
    /\ UNCHANGED <<m2m_vars, records, soft_delete, crud>>

\* session.commit(), which succeeds or raises
ScopeCommit(ok) ==
    /\ scope.at = "commit"
    /\ IF ok
       THEN /\ records' = Session_commit(records, scope.staged)
            /\ scope' = [scope EXCEPT !.at = "finally", !.commit = "ok",
                                      !.staged = {}, !.commits = @ + 1]
       ELSE /\ UNCHANGED records
            /\ scope' = [scope EXCEPT !.at = "except", !.commit = "raise"]
    /\ UNCHANGED <<m2m_vars, soft_delete, crud>>

\* except Exception: session.rollback(); raise
ScopeRollback ==
    /\ scope.at = "except"
    /\ scope' = [scope EXCEPT !.at = "finally", !.staged = {},
                              !.rollbacks = @ + 1, !.raised = TRUE]
    /\ UNCHANGED <<m2m_vars, records, soft_delete, crud>>

\* finally: session.close(); a transaction still open is released, its
\* writes are discarded; an exception on its way out leaves the generator
ScopeClose ==
    /\ scope.at = "finally"
    /\ scope' = [scope EXCEPT !.at = "done", !.staged = {}, !.closes = @ + 1,
                              !.raised = @ \/ scope.body = "BaseException"]
    /\ UNCHANGED <<m2m_vars, records, soft_delete, crud>>

InitScope ==
    /\ M2MIdle
    /\ CrudIdle

NextScope ==
    \/ ScopeEnter
    \/ \E id \in RecordIds : BodyWrite(id)
    \/ BodyReturn
    \/ \E exception \in {"Exception", "BaseException"} : BodyRaise(exception)
    \/ \E ok \in BOOLEAN : ScopeCommit(ok)
    \/ ScopeRollback
    \/ ScopeClose

\* once the body has ended, session_scope runs on to its end
SpecScope ==
    /\ InitScope
    /\ [][NextScope]_vars
    /\ WF_vars(\E ok \in BOOLEAN : ScopeCommit(ok))
    /\ WF_vars(ScopeRollback)
    /\ WF_vars(ScopeClose)

ScopeCounted ==
    /\ scope.commits <= 1
    /\ scope.rollbacks <= 1
    /\ scope.closes <= 1
    /\ scope.closes = 1 <=> scope.at = "done"
    /\ scope.commit # "none" => scope.body = "ok"

ScopeOutcome ==
    scope.at = "done" =>
        /\ scope.commit # "none" <=> scope.body = "ok"
        /\ scope.commits = 1 <=> scope.commit = "ok"
        /\ scope.commit = "ok" =>
               /\ records = scope.before \cup scope.written
               /\ ~scope.raised
               /\ scope.rollbacks = 0
        /\ scope.commit # "ok" =>
               /\ records = scope.before
               /\ scope.raised
        /\ (scope.body = "Exception" \/ scope.commit = "raise") => scope.rollbacks = 1

\* C20: session_scope commits exactly when the body completes without an
\* exception, and the rows the body wrote are then rows of the table every
\* later scope reads; when the body or the commit raises, the table is the
\* table from before the scope and the exception reaches the caller; once
\* the body has ended the session is closed, exactly once.
C20_session_scope ==
    /\ [](ScopeCounted /\ ScopeOutcome)
    /\ (scope.at \in {"commit", "except", "finally"}) ~> (scope.at = "done")

\* C20 witness: a scope whose body wrote a row and whose commit raised has
\* rolled back and closed, after an earlier scope had committed a row
C20_witness ==
    /\ scope.at = "done"
    /\ scope.commit = "raise"
    /\ scope.written # {}
    /\ scope.rollbacks = 1
    /\ scope.closes = 1
    /\ scope.before # {}

\* ===================================================================
\* Reads of EfficientM2MStrategy when the storage fails
\* ===================================================================
EfficientReads ==
    {"relationship_exists", "get_related_for_source", "get_sources_for_target",
     "count_related_for_source", "count_sources_for_target"}

ReadResult(k, flag, list, num) == [kind |-> k, flag |-> flag, list |-> list, num |-> num]

\* the try block of each read
Efficient_read(op, J, s, t, skip, limit) ==
    CASE op = "relationship_exists" ->
             ReadResult("value", Efficient_relationship_exists(J, s, t), <<>>, 0)
      [] op = "get_related_for_source" ->
             ReadResult("value", FALSE, Efficient_get_related_for_source(J, s, skip, limit), 0)
      [] op = "get_sources_for_target" ->
             ReadResult("value", FALSE, Efficient_get_sources_for_target(J, t, skip, limit), 0)
      [] op = "count_related_for_source" ->
             ReadResult("value", FALSE, <<>>, Efficient_count_related_for_source(J, s))
      [] op = "count_sources_for_target" ->
             ReadResult("value", FALSE, <<>>, Efficient_count_sources_for_target(J, t))

\* the except SQLAlchemyError branch of each read: relationship_exists logs
\* and re-raises, the list reads return [], the counts return 0
Efficient_read_except(op) ==
    IF op = "relationship_exists" THEN ReadResult("raise", FALSE, <<>>, 0)
    ELSE ReadResult("value", FALSE, <<>>, 0)

\* One read of EfficientM2MStrategy.  fails: the statement raises a
\* SQLAlchemyError.  commit_ok: the commit that session_scope runs after the
\* with block has returned succeeds; a commit that raises reaches the caller.
StorageRead(op, s, t, skip, limit, fails, commit_ok) ==
    LET r == IF fails THEN Efficient_read_except(op)
             ELSE Efficient_read(op, junction, s, t, skip, limit)
        k == IF r.kind = "value" /\ ~commit_ok THEN "raise" ELSE r.kind
    IN  /\ strategy = Efficient
        /\ last' = [NoCall EXCEPT !.op = op, !.s = s, !.t = t, !.skip = skip,
                                  !.limit = limit, !.kind = k,
                                  !.flag = (k = "value" /\ r.flag),
                                  !.list = IF k = "value" THEN r.list ELSE <<>>,
                                  !.num = IF k = "value" THEN r.num ELSE 0,
                                  !.failed = (fails \/ ~commit_ok), !.scopes = OneScope]
        /\ UNCHANGED <<crud_vars, sources, targets, junction, fk_enforced, assoc, strategy, pc, pending, outcome>>

InitStorage ==
    /\ sources \in SUBSET SourceIds
    /\ targets \in SUBSET TargetIds
    /\ junction \in SUBSET (SourceIds \X TargetIds)
    /\ fk_enforced = FALSE
    /\ assoc = SimpleShape
    /\ strategy = create_m2m_strategy(assoc)
    /\ last = NoCall
    /\ CallersIdle
    /\ CrudIdle

NextStorage ==
    \E op \in EfficientReads, s \in SourceIds, t \in TargetIds,
       skip \in {DefaultSkip, MaxSkip}, limit \in {DefaultLimit, MaxLimit},
       fails \in BOOLEAN, commit_ok \in BOOLEAN :
        StorageRead(op, s, t, skip, limit, fails, commit_ok)

SpecStorage == InitStorage /\ [][NextStorage]_vars

\* C21: a storage failure during a read of EfficientM2MStrategy reaches the
\* caller as an error, never as an ordinary result (False, [] or 0).
C21_read_failure_propagates ==
    (last.op \in EfficientReads /\ last.failed) => last.kind = "raise"

\* ===================================================================
\* The lifetime of an M2MHelper: construction, then any calls
\* ===================================================================
\* variant: the deprecated method always takes the junction-only path
M2MHelper_relationship_exists_fast_junction(st, J, s, t) == Efficient_relationship_exists(J, s, t)

\* relationship_exists_fast: return self.relationship_exists(...)
M2MHelper_relationship_exists_fast(st, J, s, t) == M2MHelper_relationship_exists(st, J, s, t)

\* count_sources_for_target_fast: include_deleted is ignored
M2MHelper_count_sources_for_target_fast(st, J, t, include_deleted) == M2MHelper_count_sources_for_target(st, J, t)

RelationshipExistsFast(s, t) ==
    /\ last' = [NoCall EXCEPT !.op = "relationship_exists_fast", !.scopes = OneScope, !.s = s, !.t = t,
                              !.kind = "value",
                              !.flag = M2MHelper_relationship_exists_fast(strategy, junction, s, t)]
    /\ UNCHANGED <<crud_vars, sources, targets, junction, fk_enforced, assoc, strategy, pc, pending, outcome>>

CountSourcesForTargetFast(t, include_deleted) ==
    /\ last' = [NoCall EXCEPT !.op = "count_sources_for_target_fast", !.scopes = OneScope, !.t = t,
                              !.kind = "value", !.linked = include_deleted,
                              !.num = M2MHelper_count_sources_for_target_fast(strategy, junction, t, include_deleted)]
    /\ UNCHANGED <<crud_vars, sources, targets, junction, fk_enforced, assoc, strategy, pc, pending, outcome>>

Constructed == strategy # Unconstructed

InitHelper ==
    /\ sources = {}
    /\ targets = {}
    /\ junction = {}
    /\ fk_enforced = FALSE
    /\ assoc \in {SimpleShape, ComplexShape}
    /\ strategy = Unconstructed
    /\ last = NoCall
    /\ CallersIdle
    /\ CrudIdle

NextHelper ==
    \/ Construct
    \/ \E id \in SourceIds : CreateSource(id)
    \/ \E id \in TargetIds : CreateTarget(id)
    \/ \E D \in SUBSET SourceIds : DeleteAllSources(D)
    \/ Constructed /\ \E s \in SourceIds, t \in TargetIds : AddRelationship(s, t)
    \/ Constructed /\ \E s \in SourceIds, t \in TargetIds : RemoveRelationship(s, t)
    \/ Constructed /\ \E s \in SourceIds, t \in TargetIds : RelationshipExists(s, t)
    \/ Constructed /\ \E s \in SourceIds : GetRelatedForSource(s, DefaultSkip, DefaultLimit)
    \/ Constructed /\ \E t \in TargetIds : GetSourcesForTarget(t, DefaultSkip, DefaultLimit)
    \/ Constructed /\ \E s \in SourceIds : CountRelatedForSource(s)
    \/ Constructed /\ \E t \in TargetIds : CountSourcesForTarget(t)
    \/ Constructed /\ \E s \in SourceIds, t \in TargetIds : RelationshipExistsFast(s, t)
    \/ Constructed /\ \E t \in TargetIds, d \in BOOLEAN : CountSourcesForTargetFast(t, d)

SpecHelper == InitHelper /\ [][NextHelper]_vars

\* C22: the strategy selected by the constructor is kept: no relationship
\* operation, failing or not, and no deprecated *_fast method replaces it,
\* so strategy_type keeps its name, and the *_fast methods answer with the
\* strategy the constructor selected.
C22_strategy_kept ==
    /\ [][Constructed => strategy' = strategy]_vars
    /\ [](Constructed => strategy = create_m2m_strategy(assoc))
    /\ [](last.op = "relationship_exists_fast" =>
              last.flag = M2MHelper_relationship_exists(strategy, junction, last.s, last.t))
    /\ [](last.op = "count_sources_for_target_fast" =>
              last.num = M2MHelper_count_sources_for_target(strategy, junction, last.t))

\* C22 witness: a helper constructed on the complex junction answers
\* relationship_exists_fast with OriginalM2MStrategy, in a state where the
\* junction still holds the row of a deleted source
C22_witness ==
    /\ strategy = Original
    /\ last.op = "relationship_exists_fast"
    /\ <<last.s, last.t>> \in junction
    /\ last.s \notin sources
    /\ ~last.flag

\* ===================================================================
\* paginated_query_with_schema: pages of a fixed table
\* ===================================================================
MaxPage == 3

Pages == 0..MaxPage

\* per_page: small values, the maximum and the first value above it
PerPages == (0..MaxLimit) \cup {MaxPerPage, MaxPerPage + 1}

\* no filter, a filter on age by a value and one by None
PaginateFilterSpecs ==
    {<<>>, <<Item("age", PyInt(1))>>, <<Item("age", PyNone)>>}

InitPaginate ==
    /\ M2MIdle
    /\ \E ids \in SUBSET RecordIds, age \in [RecordIds -> AgeColumn] :
           records = {Row(i, age[i], NULL, NULL, NULL) : i \in ids}
    /\ soft_delete = FALSE
    /\ \E F \in PaginateFilterSpecs, page \in Pages, per_page \in PerPages :
           crud = Asked([NoCrud EXCEPT !.filters = F, !.page = page,
                                       !.per_page = per_page])
    /\ scope = NoScope

PaginatedAsked ==
    /\ Pending
    /\ PaginatedQueryWithSchema(crud.page, crud.per_page, crud.filters, FALSE)

NextPaginate == PaginatedAsked

SpecPaginate == InitPaginate /\ [][NextPaginate]_vars

\* C23: paginated_query_with_schema called with a per_page above the
\* maximum does not fail; it returns a response whose per_page is at most
\* the maximum.
C23_per_page_capped ==
    (/\ crud.op = "paginated_query_with_schema"
     /\ crud.page >= 1
     /\ crud.per_page > MaxPerPage)
    => (crud.kind = "value" /\ crud.response.per_page <= MaxPerPage)

\* the sorted filtered result the pages are cut from: the rows of the same
\* query without a window
FilteredResult ==
    StringSchemaHelper_query_with_schema(records, crud.filters, <<>>, <<>>, "id", FALSE,
                                         None, 0, FALSE).rows

\* the rows at positions (P - 1) * per_page up to P * per_page - 1 (from 0)
RowsOfPage(seq, P, per_page) ==
    LET first == (P - 1) * per_page + 1
        last_ == IF P * per_page > Len(seq) THEN Len(seq) ELSE P * per_page
    IN  IF first > Len(seq) THEN <<>> ELSE SubSeq(seq, first, last_)

\* C30: the response of paginated_query_with_schema is self-consistent: for
\* every page >= 1 and per_page in 1..1000 the items are the rows of page P
\* of the sorted filtered result, P being the page the response reports,
\* and total is the number of rows of that result.
C30_response_self_consistent ==
    (/\ crud.op = "paginated_query_with_schema"
     /\ crud.page >= 1
     /\ crud.per_page \in 1..MaxPerPage)
    => /\ crud.kind = "value"
       /\ crud.rows = RowsOfPage(FilteredResult, crud.response.page, crud.response.per_page)
       /\ crud.response.total = Len(FilteredResult)

\* ===================================================================
\* Operator maps of several keys: which key is applied
\* ===================================================================
\* the values the keys of these maps are given: 'not' with None and with
\* a value, 'between' with a pair and with a list that is no pair
KeyOperands(k) ==
    CASE k = "not" -> {PyNone, PyInt(MaxAge)}
      [] k \in {">=", "<=", ">", "<"} -> {PyInt(a) : a \in Ages}
      [] k = "between" -> {PyList(<<MaxAge>>), PyList(<<MaxAge - 1, MaxAge>>)}
      [] k = "not_in" -> {PyList(<<MaxAge>>)}
      [] OTHER -> {PyInt(MaxAge)}

\* operator maps of one key and of two keys, in both insertion orders
KeyMaps ==
    UNION {{PyDict(<<Item(OperatorKeys[i], v)>>) : v \in KeyOperands(OperatorKeys[i])} :
           i \in 1..Len(OperatorKeys)}
    \cup
    UNION {{PyDict(<<Item(OperatorKeys[p[1]], v), Item(OperatorKeys[p[2]], w)>>) :
               v \in KeyOperands(OperatorKeys[p[1]]), w \in KeyOperands(OperatorKeys[p[2]])} :
           p \in {q \in (1..Len(OperatorKeys)) \X (1..Len(OperatorKeys)) : q[1] # q[2]}}

InitOperator ==
    /\ M2MIdle
    /\ \E ids \in SUBSET RecordIds, age \in [RecordIds -> AgeColumn] :
           records = {Row(i, age[i], NULL, NULL, NULL) : i \in ids}
    /\ soft_delete = FALSE
    /\ \E value \in KeyMaps : crud = Asked([NoCrud EXCEPT !.filters = <<Item("age", value)>>])
    /\ scope = NoScope

NextOperator ==
    \/ FilteredGetMulti
    \/ FilteredCount

SpecOperator == InitOperator /\ [][NextOperator]_vars

\* is the key with this position in the fixed order present ('not' counts
\* with the value None only)
KeyPresent(value, i) ==
    /\ HasKey(value, OperatorKeys[i])
    /\ OperatorKeys[i] = "not" => GetItem(value, "not").ty = "None"

SomeKeyPresent(value) == \E i \in 1..Len(OperatorKeys) : KeyPresent(value, i)

\* the first key of the fixed order that is present
FirstKey(value) ==
    OperatorKeys[CHOOSE i \in 1..Len(OperatorKeys) :
                     /\ KeyPresent(value, i)
                     /\ \A j \in 1..(i - 1) : ~KeyPresent(value, j)]

\* the predicate of one key on the integer column, by SQL's rules: a
\* comparison with a NULL column is not true
KeyHolds(k, operand, age) ==
    /\ age # NULL
    /\ CASE k = "not" -> TRUE
         [] k = ">=" -> age[1] >= operand.items[1]
         [] k = "<=" -> age[1] <= operand.items[1]
         [] k = ">" -> age[1] > operand.items[1]
         [] k = "<" -> age[1] < operand.items[1]
         [] k = "between" -> operand.items[1] <= age[1] /\ age[1] <= operand.items[2]
         [] k = "not_in" -> \A i \in 1..Len(operand.items) : age[1] # operand.items[i]
         [] OTHER -> age[1] = operand.items[1]

\* the rows the first present key of the map selects
FirstKeyRows(value) ==
    {r.id : r \in {x \in records : KeyHolds(FirstKey(value), GetItem(value, FirstKey(value)), x.age)}}

\* the first present key has an operand its predicate can be built from
FirstKeyBuilds(value) ==
    FirstKey(value) = "between" => Unpacks(GetItem(value, "between"))

FirstKeyOnly(value) ==
    /\ crud.kind = "value"
    /\ crud.op = "get_multi" => ReturnedIds = FirstKeyRows(value)
    /\ crud.op = "count" => crud.num = Cardinality(FirstKeyRows(value))

C25_one_scope_per_call ==
    /\ last.op \in {"add_relationship", "remove_relationship"} \cup EfficientReads
           => last.scopes = OneScope
    /\ crud.op \notin {"none", "call"} => crud.scopes = OneScope

\* ===================================================================
\* Bulk operations of BaseCrud
\* ===================================================================
BulkUpdateFields(key, value, filters, include_deleted) ==
    Write("bulk_update_fields",
          [NoCrud EXCEPT !.filters = filters, !.include_deleted = include_deleted],
          BaseCrud_bulk_update_fields(records, key, value, filters, include_deleted))

BulkClearFields(key, filters, include_deleted) ==
    Write("bulk_clear_fields",
          [NoCrud EXCEPT !.filters = filters, !.include_deleted = include_deleted],
          BaseCrud_bulk_clear_fields(records, key, filters, include_deleted))

DeleteAll(filters, arrived) ==
    /\ \A a \in arrived : \A r \in records : r.id # a.id
    /\ Write("delete_all", [NoCrud EXCEPT !.filters = filters, !.arrived = arrived],
             BaseCrud_delete_all(records, filters, arrived))

\* no row, or one row another session inserts
Arrivals == {{}} \cup {{Row(id, NULL, NULL, NULL, NULL)} : id \in RecordIds}

InitBulk ==
    /\ M2MIdle
    /\ soft_delete \in BOOLEAN
    /\ \E ids \in SUBSET RecordIds, age \in [RecordIds -> AgeColumn],
          deleted_at \in [RecordIds -> Markers] :
           records = {Row(i, age[i], NULL, NULL, IF soft_delete THEN deleted_at[i] ELSE NULL) :
                         i \in ids}
    /\ crud = NoCrud
    /\ scope = NoScope

NextBulk ==
    \/ \E F \in BulkFilterSpecs, include_deleted \in BOOLEAN :
           BulkUpdateFields("age", SqlInt(MaxAge), F, include_deleted)
    \/ \E F \in BulkFilterSpecs, include_deleted \in BOOLEAN :
           BulkClearFields("age", F, include_deleted)
    \/ \E F \in BulkFilterSpecs : BulkSoftDelete(F)
    \/ \E F \in BulkFilterSpecs : BulkRestore(F)
    \/ \E F \in BulkFilterSpecs, arrived \in Arrivals : DeleteAll(F, arrived)

SpecBulk == InitBulk /\ [][NextBulk]_vars

\* the rows of the table before the call that the call's filters and its
\* treatment of the deleted_at marker select
BulkMatched(op, filters, include_deleted) ==
    {r \in records :
        /\ \A i \in 1..Len(filters) : Satisfies(r, filters[i])
        /\ CASE op = "bulk_restore" -> r.deleted_at # NULL
             [] op = "bulk_soft_delete" -> r.deleted_at = NULL
             [] OTHER -> include_deleted \/ ~has_soft_delete \/ r.deleted_at = NULL}

\* C26: each bulk operation (bulk_update_fields, bulk_clear_fields,
\* bulk_soft_delete, bulk_restore, delete_all) executes as exactly one
\* statement per call, an UPDATE or a DELETE that loads no row, and returns
\* the number of rows that statement affected.
C26_bulk_single_statement ==
    [][(crud' # crud /\ crud'.op \in BulkOperations /\ crud'.kind = "value") =>
          /\ Len(crud'.statements) = 1
          /\ crud'.statements[1] \in {"UPDATE", "DELETE"}
          /\ crud'.num =
                 IF crud'.op = "delete_all"
                 THEN Cardinality(records \cup crud'.arrived) - Cardinality(records')
                 ELSE Cardinality(BulkMatched(crud'.op, crud'.filters, crud'.include_deleted))]_vars

\* ------------------------------------------ SearchHelper.batch_process
\* The loop of batch_process, one session_scope per iteration.  The scope
\* record carries the loop's locals: offset, total_processed, the rows of
\* the batch just read (batch_results), the batches the processor was
\* called with (processed) and what the call returned.
MaxBatch == 3

BatchSizes == 1..MaxBatch

\* the query the caller's query_builder returns: the rows of the table, an
\* unordered SELECT, in storage scan order
query_builder(table) == OrderBy(table, "id", FALSE)

\* base_query.offset(offset).limit(batch_size).all()
batch_query(table, offset, batch_size) ==
    Window(query_builder(table), <<offset>>, <<batch_size>>)

SearchHelper_batch_process_last_batch_inclusive(batch_results, batch_size) ==
    Len(batch_results) <= batch_size

\* "if len(batch_results) < batch_size: break"
SearchHelper_batch_process_last_batch(batch_results, batch_size) ==
    Len(batch_results) < batch_size

\* a session_scope whose body only read: commit, then close
ScopeExit(sc) == [sc EXCEPT !.commits = @ + 1, !.closes = @ + 1]

\* the head of an iteration: open a scope, build the query, read a batch
BatchQuery ==
    /\ scope.at \in {"asked", "loop"}
    /\ scope' = [scope EXCEPT !.at = "queried",
                              !.batch_results =
                                  batch_query(records, scope.offset, scope.batch_size)]
    /\ UNCHANGED <<m2m_vars, records, soft_delete, crud>>

\* "if not batch_results: break", then "return total_processed"
BatchBreak ==
    /\ scope.at = "queried"
    /\ scope.batch_results = <<>>
    /\ scope' = [ScopeExit(scope) EXCEPT !.at = "returned",
                                         !.returned = <<scope.total_processed>>]
    /\ UNCHANGED <<m2m_vars, records, soft_delete, crud>>

\* "if processor: processor(detached_batch)"
BatchProcessor ==
    /\ scope.at = "queried"
    /\ scope.batch_results # <<>>
    /\ scope' = [scope EXCEPT !.at = "processed",
                              !.processed = IF scope.processor
                                            THEN Append(@, scope.batch_results)
                                            ELSE @]
    /\ UNCHANGED <<m2m_vars, records, soft_delete, crud>>

\* the tail of an iteration: the two counters move, and a short batch
\* ends the loop
BatchAdvance ==
    /\ scope.at = "processed"
    /\ LET n == Len(scope.batch_results)
           stop == SearchHelper_batch_process_last_batch(scope.batch_results,
                                                         scope.batch_size)
       IN  scope' = [ScopeExit(scope) EXCEPT
                        !.total_processed = @ + n,
                        !.offset = @ + scope.batch_size,
                        !.at = IF stop THEN "returned" ELSE "loop",
                        !.returned = IF stop THEN <<scope.total_processed + n>> ELSE @]
    /\ UNCHANGED <<m2m_vars, records, soft_delete, crud>>

InitBatch ==
    /\ M2MIdle
    /\ soft_delete = FALSE
    /\ \E ids \in SUBSET RecordIds, age \in [RecordIds -> AgeColumn] :
           records = {Row(i, age[i], NULL, NULL, NULL) : i \in ids}
    /\ crud = NoCrud
    /\ \E batch_size \in BatchSizes, processor \in BOOLEAN :
           scope = [NoScope EXCEPT !.at = "asked", !.batch_size = batch_size,
                                   !.processor = processor]

NextBatch ==
    \/ BatchQuery
    \/ BatchBreak
    \/ BatchProcessor
    \/ BatchAdvance

\* the loop is sequential code: its next step is always taken
SpecBatch == InitBatch /\ [][NextBatch]_vars /\ WF_vars(NextBatch)

\* how often the processor was handed the row r
TimesPassed(r) ==
    Cardinality({p \in (1..Len(scope.processed)) \X BatchSizes :
                    /\ p[2] <= Len(scope.processed[p[1]])
                    /\ scope.processed[p[1]][p[2]] = r})

\* C27: batch_process terminates for every finite table and every
\* batch_size >= 1; over a table nothing else modifies, the processor is
\* handed every row of the query exactly once, in batches of at most
\* batch_size rows, and the call returns the number of rows of the query.
C27_batch_process ==
    /\ <>(scope.at = "returned")
    /\ [](\A i \in 1..Len(scope.processed) :
              /\ Len(scope.processed[i]) <= scope.batch_size
              /\ \A j \in 1..Len(scope.processed[i]) : scope.processed[i][j] \in records)
    /\ []((scope.at = "returned") =>
              /\ scope.returned = <<Cardinality(records)>>
              /\ scope.processor => \A r \in records : TimesPassed(r) = 1)

\* a call over a table of several rows that took more than one batch has
\* returned
C27_witness ==
    /\ scope.at = "returned"
    /\ scope.processor
    /\ Len(scope.processed) > 1
    /\ Cardinality(records) > 1
    /\ scope.returned = <<Cardinality(records)>>

\* ------------------------------ counts and existence over the junction
\* The junction is the set of its rows' keys, and a second row for a
\* stored pair can only come from an INSERT the composite key rejects
\* (junction_insert): "at most one row per pair" is that no call on
\* existing endpoints ever attempts such an INSERT.
ExistingEndpoints(s, t) == s \in sources /\ t \in targets

RelatedOf(a) ==
    {b \in TargetIds : M2MHelper_relationship_exists(strategy, junction, a, b)}

SourcesOf(b) ==
    {a \in SourceIds : M2MHelper_relationship_exists(strategy, junction, a, b)}

\* C28: after any sequence of add_relationship and remove_relationship
\* calls on existing endpoints, under either strategy, the junction holds
\* at most one row per (source, target) pair (no add attempted the INSERT
\* of a stored pair), count_related_for_source(a) is the number of targets
\* b with relationship_exists(a, b), and count_sources_for_target(b) is
\* the number of sources a with relationship_exists(a, b).
C28_counts_match_exists ==
    /\ (last.op = "add_relationship" /\ ExistingEndpoints(last.s, last.t)) =>
           (last.kind = "entity" /\ <<last.s, last.t>> \in junction)
    /\ \A a \in SourceIds :
           M2MHelper_count_related_for_source(strategy, junction, a) =
               Cardinality(RelatedOf(a))
    /\ \A b \in TargetIds :
           M2MHelper_count_sources_for_target(strategy, junction, b) =
               Cardinality(SourcesOf(b))

\* an add_relationship of a pair that was already stored has returned, and
\* its target is linked to more than one source
C28_witness ==
    /\ last.op = "add_relationship"
    /\ last.linked
    /\ last.kind = "entity"
    /\ Cardinality(SourcesOf(last.t)) > 1
    /\ M2MHelper_count_sources_for_target(strategy, junction, last.t) > 1

\* ------------------------------------ writes that report failure
\* C29: a relationship write that reports failure has no persistent
\* effect: whenever add_relationship or remove_relationship returns None,
\* the junction after the call, its scope ended, is the junction before
\* the call.
C29_none_leaves_junction ==
    [][(last'.op \in {"add_relationship", "remove_relationship"} /\ last'.kind = "None")
           => junction' = junction]_vars

====
